---- MODULE Spec2Model ----
(***************************************************************************)
(* sre_yield: the language of a regular expression as an indexable         *)
(* sequence.  The module models the sequence nodes (sre_yield/__init__.py),*)
(* the digit stream and powersum (sre_yield/fastdivmod.py) and the caching *)
(* function sequence (sre_yield/cachingseq.py).                            *)
(*                                                                         *)
(* Conventions.  A character is its code point (chr(c) is modelled by c),  *)
(* a string is a sequence of code points.  A call returns a record whose   *)
(* field exc is "none" or the name of the exception it raised.  An         *)
(* optional integer (slice bounds, chunk) is [some, v]; the binding        *)
(* environment d is [some, map] with some = FALSE for None.                *)
(***************************************************************************)
EXTENDS Integers, Sequences, FiniteSets, TLC

\* ------------------------------------------------------------------------
\* Bounds of the model
\* ------------------------------------------------------------------------

\* largest max_count handed to AllStrings
MaxCount == 2

\* ------------------------------------------------------------------------
\* Python values
\* ------------------------------------------------------------------------

None == [some |-> FALSE, v |-> 0]

Some(n) == [some |-> TRUE, v |-> n]

NoneD == [some |-> FALSE, map |-> <<>>]

EmptyD == [some |-> TRUE, map |-> <<>>]

\* d[key] = rv
DictSet(d, key, rv) ==
    [some |-> TRUE,
     map |-> [k \in (DOMAIN d.map) \cup {key} |-> IF k = key THEN rv ELSE d.map[k]]]

\* "fail"
FailString == <<102, 97, 105, 108>>

\* d.get(num, "fail")
DictGet(d, num) == IF num \in DOMAIN d.map THEN d.map[num] ELSE FailString

\* x ** n on non-negative integers (0 ** 0 = 1)
RECURSIVE Pow(_, _)
Pow(x, n) == IF n <= 0 THEN 1 ELSE x * Pow(x, n - 1)

\* x.bit_length()
RECURSIVE bit_length(_)
bit_length(x) == IF x = 0 THEN 0 ELSE 1 + bit_length(x \div 2)

\* "".join(seq of strings)
RECURSIVE Join(_)
Join(ss) == IF ss = <<>> THEN <<>> ELSE Head(ss) \o Join(Tail(ss))

\* seq[::-1]
Reverse(s) == [k \in 1..Len(s) |-> s[Len(s) + 1 - k]]

\* tuple comparison a < b of two pairs, as Python orders tuples
TupleLess(a, b) == \/ a[1] < b[1]
                   \/ a[1] = b[1] /\ a[2] < b[2]

\* ------------------------------------------------------------------------
\* fastdivmod.py
\* ------------------------------------------------------------------------

\* the dispatcher's limit on the estimated number of divisions
DivisionsLimit == 1024

\* digits per chunk when no chunk is given
DefaultDigitsPerChunk == 1024

\* The generator yields 0 forever (by = 1, x # 0): modelled as the outcome
\* "diverges" after no digit, since no consumer of the whole stream returns.
RECURSIVE divmod_iter_basic(_, _, _)
divmod_iter_basic(x, by, chunk) ==
    IF x = 0 THEN [exc |-> "none", digits |-> <<>>]
    ELSE IF by = 0 THEN [exc |-> "ZeroDivisionError", digits |-> <<>>]
    ELSE IF by = 1 THEN [exc |-> "diverges", digits |-> <<>>]
    ELSE LET rest == divmod_iter_basic(x \div by, by, chunk)
         IN  [exc |-> rest.exc, digits |-> <<x % by>> \o rest.digits]

\* int(round(log(chunk) / log(by))) for chunk >= 1, by >= 2: the integer k
\* nearest to log_by(chunk), i.e. by^(2k-1) <= chunk^2 <= by^(2k+1), ties to
\* the even k as Python's round does.
RECURSIVE RoundLogFrom(_, _, _)
RoundLogFrom(chunk, by, k) ==
    IF chunk * chunk < Pow(by, 2 * k + 1) THEN k
    ELSE IF chunk * chunk = Pow(by, 2 * k + 1)
         THEN (IF k % 2 = 0 THEN k ELSE k + 1)
    ELSE RoundLogFrom(chunk, by, k + 1)

RoundLog(chunk, by) == RoundLogFrom(chunk, by, 0)

\* the inner loop without its break: always `left` digits
RECURSIVE ChunkDigitsNoBreak(_, _, _, _)
ChunkDigitsNoBreak(this_chunk, x, by, left) ==
    IF left = 0 THEN <<>>
    ELSE <<this_chunk % by>> \o ChunkDigitsNoBreak(this_chunk \div by, x, by, left - 1)

\* the inner loop: at most `left` digits of this_chunk, stopping early once
\* this_chunk and x are both exhausted
RECURSIVE ChunkDigits(_, _, _, _)
ChunkDigits(this_chunk, x, by, left) ==
    IF left = 0 THEN <<>>
    ELSE LET q == this_chunk \div by
             m == this_chunk % by
         IN  IF q = 0 /\ x = 0 THEN <<m>>
             ELSE <<m>> \o ChunkDigits(q, x, by, left - 1)

RECURSIVE ChunkLoop(_, _, _, _)
ChunkLoop(x, by, chunk, digits_per_chunk) ==
    IF x = 0 THEN <<>>
    ELSE ChunkDigits(x % chunk, x \div chunk, by, digits_per_chunk)
            \o ChunkLoop(x \div chunk, by, chunk, digits_per_chunk)

divmod_iter_chunking(x, by, chunk) ==
    IF by = 1
    THEN (IF x # 0 THEN [exc |-> "ValueError", digits |-> <<>>]
                   ELSE [exc |-> "none", digits |-> <<0>>])
    ELSE IF ~chunk.some
    THEN [exc |-> "none",
          digits |-> ChunkLoop(x, by, Pow(by, DefaultDigitsPerChunk),
                               DefaultDigitsPerChunk)]
    ELSE IF chunk.v <= 0 \/ by <= 0
    THEN [exc |-> "ValueError", digits |-> <<>>]          \* math domain error
    ELSE LET digits_per_chunk == RoundLog(chunk.v, by)
         IN  IF Pow(by, digits_per_chunk) # chunk.v
             THEN [exc |-> "ValueError", digits |-> <<>>]
             ELSE IF ~(digits_per_chunk > 0)
             THEN [exc |-> "AssertionError", digits |-> <<>>]
             ELSE [exc |-> "none",
                   digits |-> ChunkLoop(x, by, chunk.v, digits_per_chunk)]

\* as divmod_iter, and a stream of several digits ends with one more 0
divmod_iter_trailing_zero(x, by, chunk) ==
    IF x < by THEN [exc |-> "none", digits |-> <<x>>]
    ELSE LET stream == divmod_iter_basic(x, by, chunk)
         IN  [exc |-> stream.exc, digits |-> stream.digits \o <<0>>]

divmod_iter(x, by, chunk) ==
    IF x < by THEN [exc |-> "none", digits |-> <<x>>]
    ELSE IF by = 0 THEN [exc |-> "ZeroDivisionError", digits |-> <<>>]
    ELSE LET divisions == bit_length(x) \div bit_length(by)
         IN  IF divisions < DivisionsLimit
             THEN divmod_iter_basic(x, by, chunk)
             ELSE divmod_iter_chunking(x, by, chunk)

powersum_high_exponent(x, low, high) ==
    LET xm1 == x - 1
    IN  IF xm1 = 0 THEN high - low + 1
        ELSE (Pow(x, high) - Pow(x, low)) \div xm1

powersum(x, low, high) ==
    LET xm1 == x - 1
    IN  IF xm1 = 0 THEN high - low + 1
        ELSE LET a == Pow(x, high + 1)
                 b == Pow(x, low)
             IN  (a - b) \div xm1

\* ------------------------------------------------------------------------
\* cachingseq.py
\* ------------------------------------------------------------------------

\* the value None as a cache entry (every real entry is a pair)
NoneValue == <<"None">>

\* CachingFuncSequence(func, length, inc_func): _cache starts empty
CachingFuncSequence(length, has_inc) ==
    [length |-> length, has_inc |-> has_inc, cache |-> <<>>]

\* self._cache.get(i)
CacheLookup(cs, i) == IF i \in DOMAIN cs.cache THEN cs.cache[i] ELSE NoneValue

\* CachingFuncSequence.__getitem__; the two callbacks are passed as
\* functions: func[i] is func(i), inc_func[i] is inc_func(i, self._cache[i - 1])
CachingGetItem(cs, i0, func, inc_func) ==
    LET i == IF i0 < 0 THEN i0 + cs.length ELSE i0
    IN  IF i < 0 \/ i >= cs.length
        THEN [exc |-> "IndexError", v |-> NoneValue, cs |-> cs]
        ELSE IF CacheLookup(cs, i) # NoneValue
        THEN [exc |-> "none", v |-> CacheLookup(cs, i), cs |-> cs]
        ELSE LET v == IF cs.has_inc /\ (i - 1) \in DOMAIN cs.cache
                      THEN inc_func[i]
                      ELSE func[i]
             IN  [exc |-> "none", v |-> v,
                  cs |-> [cs EXCEPT !.cache =
                             [k \in (DOMAIN cs.cache) \cup {i} |->
                                 IF k = i THEN v ELSE cs.cache[k]]]]

\* ------------------------------------------------------------------------
\* __init__.py: index helpers and sequence nodes
\* ------------------------------------------------------------------------

\* OFFSET_BREAK_THRESHOLD = sys.maxsize, here the largest integer of the
\* checker (every modelled offset is below it); the module global is the
\* variable threshold of the model
OFFSET_BREAK_THRESHOLD == 2147483647

\* count above which RepetitiveSequence.get_item copies its content
MaterialiseCount == 100

\* content length below which it does so
MaterialiseLength == 1000

\* _adjust_index(n, size): size is added to a negative n; a result above
\* size becomes size, a result still negative raises
_adjust_index(n0, size) ==
    LET n == IF n0 < 0 THEN n0 + size ELSE n0
    IN  IF n < 0 THEN [exc |-> "IndexError", n |-> n]
        ELSE IF n > size THEN [exc |-> "none", n |-> size]
        ELSE [exc |-> "none", n |-> n]

\* results of get_item / __getitem__: the value, the environment as the
\* call left it, and the node (its offset caches may have been filled)
Ok(val, d, node) == [exc |-> "none", val |-> val, d |-> d, node |-> node]

Raise(e, d, node) == [exc |-> e, val |-> <<>>, d |-> d, node |-> node]

\* hasattr(c, "get_item"): everything but a plain Python list
HasGetItem(node) == node.kind # "list"

\* a.__len__()
SeqLen(node) == IF node.kind = "list" THEN Len(node.items) ELSE node.length

\* a Python list of strings (the leaf productions of the adapter)
MkList(items) == [kind |-> "list", items |-> items]

RECURSIVE SumSeq(_)
SumSeq(ns) == IF ns = <<>> THEN 0 ELSE Head(ns) + SumSeq(Tail(ns))

RECURSIVE ProductSeq(_)
ProductSeq(ns) == IF ns = <<>> THEN 1 ELSE Head(ns) * ProductSeq(Tail(ns))

\* ConcatenatedSequence.__init__
ConcatenatedSequence(alternatives) ==
    LET lens == [k \in 1..Len(alternatives) |-> SeqLen(alternatives[k])]
    IN  [kind |-> "concat", kids |-> alternatives, lens |-> lens,
         length |-> SumSeq(lens)]

\* CombinatoricsSequence.__init__
CombinatoricsSequence(components) ==
    LET lens == [k \in 1..Len(components) |-> SeqLen(components[k])]
    IN  [kind |-> "combin", kids |-> components, lens |-> lens,
         length |-> ProductSeq(lens)]

\* SaveCaptureGroup.__init__
SaveCaptureGroup(parsed, key) ==
    [kind |-> "save", raw |-> parsed, key |-> key, length |-> SeqLen(parsed)]

\* ReadCaptureGroup.__init__
ReadCaptureGroup(n) == [kind |-> "read", num |-> n, length |-> 1]

\* as arbitrary_entry, the powers summed from exponent 0 on
arbitrary_entry_from_zero(content_length, lowest, i) ==
    <<powersum(content_length, 0, i + lowest - 1), i + lowest>>

\* the closures of RepetitiveSequence.__init__
arbitrary_entry(content_length, lowest, i) ==
    <<powersum(content_length, lowest, i + lowest - 1), i + lowest>>

\* as entry_from_prev, the count left as it was
entry_from_prev_same_count(content_length, i, prev) ==
    <<prev[1] + Pow(content_length, prev[2]), prev[2]>>

entry_from_prev(content_length, i, prev) ==
    <<prev[1] + Pow(content_length, prev[2]), prev[2] + 1>>

\* self.offsets[i] of a RepetitiveSequence
OffsetsGetItem(rep, i) ==
    CachingGetItem(rep.offsets, i,
                   [k \in 0..(rep.offsets.length - 1) |->
                       arbitrary_entry(rep.content_length, rep.lowest, k)],
                   [k \in {k \in 1..(rep.offsets.length - 1) :
                               (k - 1) \in DOMAIN rep.offsets.cache} |->
                       entry_from_prev(rep.content_length, k,
                                       rep.offsets.cache[k - 1])])

\* the scan of RepetitiveSequence.__init__ for the first offset above the
\* threshold, from index i on
RECURSIVE OffsetBreakScan(_, _, _)
OffsetBreakScan(rep, i, thr) ==
    LET \* the loop ends with the entry r read last, which is in the cache
        stop(r, index, plus) == [rep EXCEPT !.offsets = r.cs,
                                            !.index_of_offset = index,
                                            !.offset_break = r.v[1] + plus]
        \* nxt is self.offsets[i + 1]
        step(nxt) ==
            IF nxt.v[1] > thr
            THEN stop(OffsetsGetItem([rep EXCEPT !.offsets = nxt.cs], i), i, 0)
            ELSE OffsetBreakScan([rep EXCEPT !.offsets = nxt.cs], i + 1, thr)
    IN  IF i >= rep.offsets.length - 1
        THEN stop(OffsetsGetItem(rep, -1), rep.offsets.length, 1)
        ELSE step(OffsetsGetItem(rep, i + 1))

\* RepetitiveSequence.__init__
RepetitiveSequence(content, lowest, highest, thr) ==
    LET content_length == SeqLen(content)
        \* last is self.offsets[-1]
        scan(rep, last) ==
            OffsetBreakScan([rep EXCEPT !.offsets = last.cs],
                            IF last.v[1] > thr THEN 0 ELSE rep.offsets.length - 1,
                            thr)
        built(rep) == scan(rep, OffsetsGetItem(rep, -1))
    IN  built([kind |-> "repeat", content |-> content,
               content_length |-> content_length,
               length |-> powersum(content_length, lowest, highest),
               lowest |-> lowest, highest |-> highest,
               offsets |-> CachingFuncSequence(highest - lowest + 1, TRUE),
               index_of_offset |-> 0, offset_break |-> 0])

\* bisect.bisect_left(self.offsets, x, lo, hi); the reads fill the cache
RECURSIVE bisect_left(_, _, _, _)
bisect_left(rep, x, lo, hi) ==
    LET mid == (lo + hi) \div 2
        \* r is self.offsets[mid]
        halve(r) ==
            bisect_left([rep EXCEPT !.offsets = r.cs], x,
                        IF TupleLess(r.v, x) THEN mid + 1 ELSE lo,
                        IF TupleLess(r.v, x) THEN hi ELSE mid)
    IN  IF lo < hi THEN halve(OffsetsGetItem(rep, mid))
        ELSE [idx |-> lo, rep |-> rep]

\* list.__getitem__(i)
ListGetItem(node, i0) ==
    LET i == IF i0 < 0 THEN i0 + Len(node.items) ELSE i0
    IN  IF i < 0 \/ i >= Len(node.items) THEN Raise("IndexError", NoneD, node)
        ELSE Ok(node.items[i + 1], NoneD, node)

RECURSIVE GetItem(_, _, _)
RECURSIVE GetItemDunder(_, _)
RECURSIVE WrappedGetItem(_, _, _)
RECURSIVE ConcatScan(_, _, _, _)
RECURSIVE CombinLoop(_, _, _, _, _)
RECURSIVE Materialise(_, _, _)
RECURSIVE RepCollect(_, _, _, _)

\* WrappedSequence.__getitem__ for an integer i (a plain list: list indexing)
GetItemDunder(node, i) ==
    IF node.kind = "list" THEN ListGetItem(node, i)
    ELSE LET a == _adjust_index(i, node.length)
         IN  IF a.exc # "none" THEN Raise(a.exc, NoneD, node)
             ELSE [GetItem(node, a.n, NoneD) EXCEPT !.d = NoneD]

\* c.get_item(i, d) if hasattr(c, "get_item") else c[i]
ChildItem(c, i, d) ==
    IF HasGetItem(c) THEN GetItem(c, i, d)
    ELSE [GetItemDunder(c, i) EXCEPT !.d = d]

\* WrappedSequence.get_item
WrappedGetItem(node, i, d) ==
    LET a == _adjust_index(i, node.length)
        \* r is the outcome of the lookup in self.raw
        wrapped(r) == [r EXCEPT !.node = [node EXCEPT !.raw = r.node]]
    IN  IF a.exc # "none" THEN Raise(a.exc, d, node)
        ELSE wrapped(ChildItem(node.raw, a.n, d))

\* the same loop without the offset adjustment (i -= a_len)
ConcatScanNoOffset(node, k, i, d) ==
    IF k > Len(node.kids) THEN Raise("IndexError", d, node)
    ELSE IF i < node.lens[k]
         THEN LET r == GetItemDunder(node.kids[k], i)
              IN  [r EXCEPT !.d = d, !.node = [node EXCEPT !.kids[k] = r.node]]
         ELSE ConcatScan(node, k + 1, i, d)

\* the loop of ConcatenatedSequence.get_item from child k on
ConcatScan(node, k, i, d) ==
    LET \* r is the outcome of a[i]
        found(r) == [r EXCEPT !.d = d, !.node = [node EXCEPT !.kids[k] = r.node]]
    IN  IF k > Len(node.kids) THEN Raise("IndexError", d, node)
        ELSE IF i < node.lens[k] THEN found(GetItemDunder(node.kids[k], i))
        ELSE ConcatScan(node, k + 1, i - node.lens[k], d)

\* ConcatenatedSequence.get_item
ConcatGetItem(node, i, d) == ConcatScan(node, 1, i, d)

\* the loop of CombinatoricsSequence.get_item from child k on; result is the
\* list of strings appended so far
CombinLoop(node, k, i, d, result) ==
    LET c_len == node.lens[k]
        \* r is the outcome of the lookup of i % c_len in the child
        appended(r) ==
            IF r.exc # "none"
            THEN Raise(r.exc, r.d, [node EXCEPT !.kids[k] = r.node])
            ELSE CombinLoop([node EXCEPT !.kids[k] = r.node], k + 1,
                            i \div c_len, r.d, Append(result, r.val))
    IN  IF k > Len(node.kids) THEN Ok(Join(result), d, node)
        ELSE IF c_len = 0 THEN Raise("ZeroDivisionError", d, node)
        ELSE appended(ChildItem(node.kids[k], i % c_len, d))

\* the same loop taking the children from the last to the first, so that
\* the last child is the least-significant digit
RECURSIVE CombinLoopLastFirst(_, _, _, _, _)
CombinLoopLastFirst(node, k, i, d, result) ==
    IF k < 1 THEN Ok(Join(result), d, node)
    ELSE LET c_len == node.lens[k]
             c     == node.kids[k]
             r     == IF HasGetItem(c) THEN GetItem(c, i % c_len, d)
                                       ELSE GetItemDunder(c, i % c_len)
             d1    == IF HasGetItem(c) THEN r.d ELSE d
             node1 == [node EXCEPT !.kids[k] = r.node]
         IN  IF r.exc # "none" THEN Raise(r.exc, d1, node1)
             ELSE CombinLoopLastFirst(node1, k - 1, i \div c_len, d1,
                                      <<r.val>> \o result)

CombinGetItemLastFirst(node, i0, d) ==
    LET i == IF i0 < 0 THEN i0 + node.length ELSE i0
    IN  IF i < 0 \/ i >= node.length THEN Raise("IndexError", d, node)
        ELSE CombinLoopLastFirst(node, Len(node.kids), i, d, <<>>)

\* CombinatoricsSequence.get_item
CombinGetItem(node, i0, d) ==
    LET i == IF i0 < 0 THEN i0 + node.length ELSE i0
    IN  IF i < 0 \/ i >= node.length THEN Raise("IndexError", d, node)
        ELSE IF Len(node.kids) = 1
        THEN LET only(r) ==
                     [r EXCEPT !.d = d, !.node = [node EXCEPT !.kids[1] = r.node]]
             IN  only(GetItemDunder(node.kids[1], i))
        ELSE CombinLoop(node, 1, i, d, <<>>)

\* list(self.content): WrappedSequence.__iter__ calls get_item(i) for i in
\* range(length); items is the list built so far
Materialise(content, i, items) ==
    LET next(r) == IF r.exc # "none" THEN Raise(r.exc, NoneD, r.node)
                   ELSE Materialise(r.node, i + 1, Append(items, r.val))
    IN  IF content.kind = "list" THEN Ok(content.items, NoneD, content)
        ELSE IF i >= content.length THEN Ok(items, NoneD, content)
        ELSE next(GetItem(content, i, NoneD))

\* result.append(content[modulus]) for each remaining digit
RepCollect(content, digits, k, result) ==
    LET next(r) == IF r.exc # "none" THEN Raise(r.exc, NoneD, r.node)
                   ELSE RepCollect(r.node, digits, k + 1, Append(result, r.val))
    IN  IF k > Len(digits) THEN Ok(result, NoneD, content)
        ELSE next(GetItemDunder(content, digits[k]))

\* the digits in the order the stream yields them, not reversed
RepBuildNoReverse(node, num, count, d) ==
    LET stream  == divmod_iter(num, node.content_length, None)
        col     == RepCollect(node.content, stream.digits, 1, <<>>)
        leftover == count - Len(col.val)
        pad     == GetItemDunder(col.node, 0)
    IN  IF count = 0 THEN Ok(<<>>, d, node)
        ELSE IF col.exc # "none" THEN Raise(col.exc, d, node)
        ELSE IF leftover = 0 THEN Ok(Join(col.val), d, node)
        ELSE IF pad.exc # "none" THEN Raise(pad.exc, d, node)
        ELSE Ok(Join(col.val \o [k \in 1..leftover |-> pad.val]), d, node)

\* the part of RepetitiveSequence.get_item after the offset entry is known
RepBuild(node, num, count, d) ==
    LET copy == count > MaterialiseCount /\ node.content_length < MaterialiseLength
        \* self after a lookup in content left c behind (a copy is not self's)
        kept(n, c) == IF copy THEN n ELSE [n EXCEPT !.content = c]
        \* pad is the outcome of content[0]
        extended(n, result, pad) ==
            IF pad.exc # "none" THEN Raise(pad.exc, d, kept(n, pad.node))
            ELSE Ok(Join(Reverse(result \o [k \in 1..(count - Len(result)) |->
                                               pad.val])),
                    d, kept(n, pad.node))
        \* col is the outcome of the loop over the digits
        collected(n, col) ==
            IF col.exc # "none" THEN Raise(col.exc, d, kept(n, col.node))
            ELSE IF count - Len(col.val) = 0
            THEN Ok(Join(Reverse(col.val)), d, kept(n, col.node))
            ELSE IF ~(count - Len(col.val) > 0)
            THEN Raise("AssertionError", d, kept(n, col.node))
            ELSE extended(kept(n, col.node), col.val, GetItemDunder(col.node, 0))
        \* the loop takes a digit, then looks it up, in turns: a stream that
        \* never ends (every digit of it is 0) is cut short by the first
        \* content[0] when that raises; first is its outcome
        endless(n, first) ==
            IF first.exc # "none" THEN Raise(first.exc, d, kept(n, first.node))
            ELSE Raise("diverges", d, kept(n, first.node))
        digits(n, content, stream) ==
            IF stream.exc = "diverges" THEN endless(n, GetItemDunder(content, 0))
            ELSE IF stream.exc # "none" THEN Raise(stream.exc, d, n)
            ELSE collected(n, RepCollect(content, stream.digits, 1, <<>>))
        picked(n, content) ==
            IF count = 0 THEN Ok(<<>>, d, n)
            ELSE digits(n, content, divmod_iter(num, node.content_length, None))
        \* mat is the outcome of list(self.content)
        copied(mat) ==
            IF mat.exc # "none"
            THEN Raise(mat.exc, d, [node EXCEPT !.content = mat.node])
            ELSE picked([node EXCEPT !.content = mat.node], MkList(mat.val))
    IN  IF copy THEN copied(Materialise(node.content, 0, <<>>))
        ELSE picked(node, node.content)

\* RepetitiveSequence.get_item
RepGetItem(node, i, d) ==
    LET len == node.offsets.length
        \* entry is self.offsets[by_bisect]
        build(n, entry) ==
            IF entry.exc # "none"
            THEN Raise(entry.exc, d, [n EXCEPT !.offsets = entry.cs])
            ELSE RepBuild([n EXCEPT !.offsets = entry.cs],
                          i - entry.v[1], entry.v[2], d)
        lookup(n, by_bisect) == build(n, OffsetsGetItem(n, by_bisect))
        \* probe is self.offsets[by_bisect] of the test, not read at len
        probed(b, probe) ==
            IF probe.exc # "none"
            THEN Raise(probe.exc, d, [b.rep EXCEPT !.offsets = probe.cs])
            ELSE lookup([b.rep EXCEPT !.offsets = probe.cs],
                        IF b.idx = len \/ probe.v[1] > i THEN b.idx - 1
                                                         ELSE b.idx)
        \* b is the outcome of bisect_left
        bisected(b) ==
            probed(b, IF b.idx = len
                      THEN [exc |-> "none", v |-> NoneValue, cs |-> b.rep.offsets]
                      ELSE OffsetsGetItem(b.rep, b.idx))
    IN  bisected(bisect_left(node, <<i, -1>>,
                             IF i < node.offset_break THEN 0
                                                      ELSE node.index_of_offset,
                             IF i < node.offset_break THEN node.index_of_offset
                                                      ELSE len))

\* SaveCaptureGroup.get_item
SaveGetItem(node, n, d) ==
    LET saved(rv) ==
            IF rv.exc # "none" THEN rv
            ELSE IF rv.d.some
            THEN [rv EXCEPT !.d = DictSet(rv.d, node.key, rv.val)]
            ELSE rv
    IN  saved(WrappedGetItem(node, n, d))

\* ReadCaptureGroup.get_item
ReadGetItem(node, i, d) ==
    IF i # 0 THEN Raise("IndexError", d, node)
    ELSE IF ~d.some THEN Raise("ValueError", d, node)
    ELSE Ok(DictGet(d, node.num), d, node)

\* RegexMembershipSequence.get_item
RegexGetItem(node, i, d) ==
    WrappedGetItem(node, i,
                   IF node.has_groupref \/ d.some
                   THEN (IF d.some THEN d ELSE EmptyD)
                   ELSE NoneD)

\* node.get_item(i, d), by the class of the node
GetItem(node, i, d) ==
    CASE node.kind = "concat" -> ConcatGetItem(node, i, d)
      [] node.kind = "combin" -> CombinGetItem(node, i, d)
      [] node.kind = "repeat" -> RepGetItem(node, i, d)
      [] node.kind = "save"   -> SaveGetItem(node, i, d)
      [] node.kind = "read"   -> ReadGetItem(node, i, d)
      [] node.kind = "regex"  -> RegexGetItem(node, i, d)

\* ------------------------------------------------------------------------
\* __init__.py: the parsed pattern (the output of sre_parse.parse)
\* ------------------------------------------------------------------------

\* A parsed pattern is a sequence of (matcher, arguments) tuples; each tuple
\* is a record whose field op is the matcher.
Literal(c) == [op |-> "LITERAL", c |-> c]

NotLiteral(c) == [op |-> "NOT_LITERAL", c |-> c]

AnyChar == [op |-> "ANY"]

Negate == [op |-> "NEGATE"]

Range(l, h) == [op |-> "RANGE", l |-> l, h |-> h]

In(items) == [op |-> "IN", items |-> items]

Branch(alts) == [op |-> "BRANCH", alts |-> alts]

MaxRepeat(lo, hi, body) == [op |-> "MAX_REPEAT", lo |-> lo, hi |-> hi, body |-> body]

MinRepeat(lo, hi, body) == [op |-> "MIN_REPEAT", lo |-> lo, hi |-> hi, body |-> body]

\* group is None for a non-capturing group; name is the name the pattern
\* gives the group ((?P<name>...), kept by the parser in state.groupdict),
\* the empty string for none
SubPattern(group, body) ==
    [op |-> "SUBPATTERN", group |-> group, body |-> body, name |-> ""]

NamedSubPattern(group, name, body) ==
    [op |-> "SUBPATTERN", group |-> group, body |-> body, name |-> name]

GroupRef(n) == [op |-> "GROUPREF", n |-> n]

At(where) == [op |-> "AT", where |-> where]

\* dir is 1 for a lookahead, -1 for a lookbehind
LookAround(dir, body) == [op |-> "ASSERT", dir |-> dir, body |-> body]

NegLookAround(dir, body) == [op |-> "ASSERT_NOT", dir |-> dir, body |-> body]

\* c is the name of the category, as CATEGORY_DIGIT
Category(c) == [op |-> "CATEGORY", c |-> c]

\* WORD = string.ascii_letters + string.digits + "_", as code points
WORD ==
    [k \in 1..63 |-> IF k <= 26 THEN 96 + k
                     ELSE IF k <= 52 THEN 38 + k
                     ELSE IF k <= 62 THEN k - 5
                     ELSE 95]

\* Not(chars): the characters of CHARSET (code points 0..255) not in chars,
\* sorted
Not(chars) ==
    SelectSeq([k \in 1..256 |-> k - 1],
              LAMBDA c : \A j \in 1..Len(chars) : chars[j] # c)

\* CATEGORIES[y]; string.digits is "0123456789", string.whitespace is
\* " \t\n\r\x0b\x0c"
CATEGORIES(y) ==
    CASE y = "CATEGORY_WORD"      -> WORD
      [] y = "CATEGORY_NOT_WORD"  -> Not(WORD)
      [] y = "CATEGORY_DIGIT"     -> [k \in 1..10 |-> 47 + k]
      [] y = "CATEGORY_NOT_DIGIT" -> Not([k \in 1..10 |-> 47 + k])
      [] y = "CATEGORY_SPACE"     -> <<32, 9, 10, 13, 11, 12>>
      [] y = "CATEGORY_NOT_SPACE" -> Not(<<32, 9, 10, 13, 11, 12>>)

\* sre_constants.MAXREPEAT, the upper count of * and + (any value above
\* every modelled max_count)
MAXREPEAT == 2147483647

\* the default of max_count
MAX_REPEAT_COUNT == 65535

\* the keys of self.backends
Backends == {"LITERAL", "RANGE", "SUBPATTERN", "BRANCH", "MIN_REPEAT",
             "MAX_REPEAT", "AT", "ASSERT", "ASSERT_NOT", "ANY", "IN",
             "NOT_LITERAL", "CATEGORY", "GROUPREF"}

\* ------------------------------------------------------------------------
\* __init__.py: RegexMembershipSequence, the adapter
\* ------------------------------------------------------------------------

\* The adapter's fields while it builds: state, has_groupref (both change),
\* relaxed, charset, max_count and the module's OFFSET_BREAK_THRESHOLD.
\* A builder returns [exc, node, ctx].
Built(node, ctx) == [exc |-> "none", node |-> node, ctx |-> ctx]

ParseError(ctx) == [exc |-> "ParseError", node |-> MkList(<<>>), ctx |-> ctx]

EndAnchors == {"AT_END", "AT_END_STRING", "AT_BOUNDARY"}

\* check_anchor_state that lets every anchor through at MIDDLE
check_anchor_state_lenient(state, t) ==
    IF state = "START"
    THEN IF t.op = "AT"
         THEN IF t.where \in {"AT_END", "AT_END_STRING"}
              THEN [exc |-> "none", state |-> "END"]
              ELSE IF t.where = "AT_NON_BOUNDARY"
              THEN [exc |-> "ParseError", state |-> state]
              ELSE [exc |-> "none", state |-> "START"]
         ELSE IF t.op # "SUBPATTERN"
         THEN [exc |-> "none", state |-> "MIDDLE"]
         ELSE [exc |-> "none", state |-> "START"]
    ELSE IF state = "END"
    THEN IF t.op = "AT"
         THEN IF t.where \notin EndAnchors
              THEN [exc |-> "ParseError", state |-> state]
              ELSE [exc |-> "none", state |-> "END"]
         ELSE IF t.op # "SUBPATTERN"
         THEN [exc |-> "ParseError", state |-> state]
         ELSE [exc |-> "none", state |-> "END"]
    ELSE IF t.op = "AT" /\ t.where \in EndAnchors
         THEN [exc |-> "none", state |-> "END"]
         ELSE [exc |-> "none", state |-> "MIDDLE"]

\* check_anchor_state(matcher, arguments): the new self.state, or ParseError
check_anchor_state(state, t) ==
    IF state = "START"
    THEN IF t.op = "AT"
         THEN IF t.where \in {"AT_END", "AT_END_STRING"}
              THEN [exc |-> "none", state |-> "END"]
              ELSE IF t.where = "AT_NON_BOUNDARY"
              THEN [exc |-> "ParseError", state |-> state]
              ELSE [exc |-> "none", state |-> "START"]
         ELSE IF t.op # "SUBPATTERN"
         THEN [exc |-> "none", state |-> "MIDDLE"]
         ELSE [exc |-> "none", state |-> "START"]
    ELSE IF state = "END"
    THEN IF t.op = "AT"
         THEN IF t.where \notin EndAnchors
              THEN [exc |-> "ParseError", state |-> state]
              ELSE [exc |-> "none", state |-> "END"]
         ELSE IF t.op # "SUBPATTERN"
         THEN [exc |-> "ParseError", state |-> state]
         ELSE [exc |-> "none", state |-> "END"]
    ELSE IF t.op = "AT"
         THEN IF t.where \notin EndAnchors
              THEN [exc |-> "ParseError", state |-> state]
              ELSE [exc |-> "none", state |-> "END"]
         ELSE [exc |-> "none", state |-> "MIDDLE"]

\* a Python str as a production: indexed and measured as the list of its
\* characters, but item in str holds for every substring
MkStr(chars) ==
    [kind |-> "list", items |-> [k \in 1..Len(chars) |-> <<chars[k]>>],
     str |-> chars]

\* item in seq, for the sequences in_values builds (ConcatenatedSequence
\* .__contains__ over lists and strs)
RECURSIVE Contains(_, _)
Contains(node, item) ==
    IF node.kind = "list"
    THEN IF "str" \in DOMAIN node
         THEN \E k \in 1..(Len(node.str) + 1) :
                 /\ k + Len(item) - 1 <= Len(node.str)
                 /\ SubSeq(node.str, k, k + Len(item) - 1) = item
         ELSE \E k \in 1..Len(node.items) : node.items[k] = item
    ELSE \E k \in 1..Len(node.kids) : Contains(node.kids[k], item)

RECURSIVE sub_values_list(_, _)
RECURSIVE sub_values_tuple(_, _)
RECURSIVE sub_values_each(_, _, _, _, _)

\* [self.sub_values(p) for p in items], from item k on; nested tells whether
\* the items are lists (sub-patterns) or tuples
sub_values_each(items, k, ctx, acc, nested) ==
    LET \* r is self.sub_values(items[k])
        next(r) ==
            IF r.exc # "none" THEN [exc |-> r.exc, nodes |-> acc, ctx |-> r.ctx]
            ELSE sub_values_each(items, k + 1, r.ctx, Append(acc, r.node), nested)
    IN  IF k > Len(items) THEN [exc |-> "none", nodes |-> acc, ctx |-> ctx]
        ELSE next(IF nested THEN sub_values_list(items[k], ctx)
                            ELSE sub_values_tuple(items[k], ctx))

\* sub_values of a list or a SubPattern object
sub_values_list(parsed, ctx) ==
    LET combined(r) == IF r.exc # "none" THEN ParseError(r.ctx)
                       ELSE Built(CombinatoricsSequence(r.nodes), r.ctx)
    IN  combined(sub_values_each(parsed, 1, ctx, <<>>, FALSE))

\* branch_values(_, items)
branch_values(items, ctx, nested) ==
    LET merged(r) == IF r.exc # "none" THEN ParseError(r.ctx)
                     ELSE Built(ConcatenatedSequence(r.nodes), r.ctx)
    IN  merged(sub_values_each(items, 1, ctx, <<>>, nested))

\* max_repeat_values(min_count, max_count, items)
max_repeat_values(min_count, max_count0, items, ctx) ==
    LET max_count1 == IF max_count0 < ctx.max_count THEN max_count0 ELSE ctx.max_count
        max_count  == IF max_count1 > min_count THEN max_count1 ELSE min_count
        \* r is self.sub_values(items)
        repeated(r) ==
            IF r.exc # "none" THEN r
            ELSE Built(RepetitiveSequence(r.node, min_count, max_count, ctx.thr),
                       r.ctx)
    IN  repeated(sub_values_list(items, ctx))

\* in_values(items)
in_values(items, ctx) ==
    LET negated == items # <<>> /\ items[1].op = "NEGATE"
        \* r is self.branch_values(None, ...) of the items after NEGATE, or of
        \* all of them
        chosen(r) ==
            IF ~negated \/ r.exc # "none" THEN r
            ELSE Built(MkList(SelectSeq(ctx.charset,
                                        LAMBDA item : ~Contains(r.node, item))),
                       r.ctx)
    IN  chosen(branch_values(IF negated THEN Tail(items) ELSE items, ctx, FALSE))

\* not_literal(y)
not_literal(y, ctx) == in_values(<<Negate, Literal(y)>>, ctx)

\* category(y)
category(y, ctx) == Built(MkStr(CATEGORIES(y)), ctx)

\* groupref(n)
groupref(n, ctx) == Built(ReadCaptureGroup(n), [ctx EXCEPT !.has_groupref = TRUE])

\* maybe_save(group, ..., parsed)
maybe_save(group, parsed, ctx) ==
    LET saved(rv) ==
            IF rv.exc # "none" THEN rv
            ELSE IF group.some
            THEN Built(SaveCaptureGroup(rv.node, group.v), rv.ctx)
            ELSE rv
    IN  saved(sub_values_list(parsed, ctx))

\* nothing_added: [""]
nothing_added(ctx) == Built(MkList(<< <<>> >>), ctx)

\* self.backends[matcher](*arguments)
Backend(t, ctx) ==
    CASE t.op = "LITERAL"     -> Built(MkList(<< <<t.c>> >>), ctx)
      [] t.op = "RANGE"       -> Built(MkList([k \in 1..(t.h - t.l + 1) |-> <<t.l + k - 1>>]), ctx)
      [] t.op = "SUBPATTERN"  -> maybe_save(t.group, t.body, ctx)
      [] t.op = "BRANCH"      -> branch_values(t.alts, ctx, TRUE)
      [] t.op \in {"MIN_REPEAT", "MAX_REPEAT"} ->
            max_repeat_values(t.lo, t.hi, t.body, ctx)
      [] t.op = "AT"          -> nothing_added(ctx)
      [] t.op \in {"ASSERT", "ASSERT_NOT"} ->
            IF ctx.relaxed THEN nothing_added(ctx) ELSE ParseError(ctx)
      [] t.op = "ANY"         -> in_values(<<Negate>>, ctx)
      [] t.op = "IN"          -> in_values(t.items, ctx)
      [] t.op = "NOT_LITERAL" -> not_literal(t.c, ctx)
      [] t.op = "CATEGORY"    -> category(t.c, ctx)
      [] t.op = "GROUPREF"    -> groupref(t.n, ctx)

\* sub_values of a (matcher, arguments) tuple
sub_values_tuple(t, ctx) ==
    LET \* a is the outcome of check_anchor_state, skipped when relaxed
        backend(a) == IF a.exc # "none" THEN ParseError(ctx)
                      ELSE Backend(t, [ctx EXCEPT !.state = a.state])
    IN  IF t.op \in Backends
        THEN backend(IF ~ctx.relaxed THEN check_anchor_state(ctx.state, t)
                     ELSE [exc |-> "none", state |-> ctx.state])
        ELSE ParseError(ctx)

\* the flags RegexMembershipSequence.__init__ rejects
UnsupportedFlags == {"IGNORECASE", "UNICODE", "LOCALE"}

\* RegexMembershipSequence.__init__ (the pattern already parsed); matches is
\* TRUE for the subclass RegexMembershipSequenceMatches
RegexMembershipSequence(pattern, flags, charset, max_count, relaxed, thr, matches) ==
    LET cs  == IF "DOTALL" \in flags THEN charset
               ELSE SelectSeq(charset, LAMBDA c : c # <<10>>)   \* c != "\n"
        ctx == [state |-> "START", has_groupref |-> FALSE, relaxed |-> relaxed,
                charset |-> cs,
                max_count |-> IF max_count.some THEN max_count.v ELSE MAX_REPEAT_COUNT,
                thr |-> thr]
        failed == [exc |-> "ParseError", kind |-> "regex", pattern |-> pattern,
                   charset |-> cs, max_count |-> ctx.max_count, relaxed |-> relaxed,
                   matches |-> matches]
        \* r is self.sub_values(pattern)
        constructed(r) ==
            IF r.exc # "none" THEN failed
            ELSE [exc |-> "none", kind |-> "regex", pattern |-> pattern,
                  charset |-> cs, max_count |-> ctx.max_count,
                  relaxed |-> relaxed, matches |-> matches, raw |-> r.node,
                  length |-> SeqLen(r.node),
                  has_groupref |-> r.ctx.has_groupref, state |-> r.ctx.state]
    IN  IF flags \cap UnsupportedFlags # {} THEN failed
        ELSE constructed(sub_values_list(pattern, ctx))

\* ------------------------------------------------------------------------
\* __init__.py: slicing
\* ------------------------------------------------------------------------

\* a // b as Python rounds it (towards minus infinity), b # 0
FloorDiv(a, b) == IF b > 0 THEN a \div b ELSE (-a) \div (-b)

\* a slice object: start, stop and step are optional integers
Slice(start, stop, step) == [start |-> start, stop |-> stop, step |-> step]

\* slice_indices(slice_obj, size)
slice_indices(slice_obj, size) ==
    LET step  == IF ~slice_obj.step.some THEN 1 ELSE slice_obj.step.v
        astart == _adjust_index(slice_obj.start.v, size)
        start == IF ~slice_obj.start.some
                 THEN (IF step > 0 THEN 0 ELSE size - 1)
                 ELSE astart.n
        astop == _adjust_index(slice_obj.stop.v, size)
        stop  == IF ~slice_obj.stop.some
                 THEN (IF step > 0 THEN size ELSE -1)
                 ELSE astop.n
    IN  IF slice_obj.start.some /\ astart.exc # "none"
        THEN [exc |-> astart.exc, start |-> 0, stop |-> 0, step |-> step]
        ELSE IF slice_obj.stop.some /\ astop.exc # "none"
        THEN [exc |-> astop.exc, start |-> 0, stop |-> 0, step |-> step]
        ELSE [exc |-> "none", start |-> start, stop |-> stop, step |-> step]

\* _sign(x)
_sign(x) == IF x > 0 THEN 1 ELSE -1

\* a result list shorter than this is unpacked by __getitem__
UnpackBelow == 16

\* SlicedSequence.__init__(raw, slicer) for a raw of the given length; the
\* view keeps its raw by reference, so the model keeps the views in a chain
\* (views[k].raw is views[k-1], views[1].raw is the top-level sequence)
SlicedSequence(raw_len, slicer) ==
    LET \* ind is slice_indices(slicer, len(raw))
        view(ind) ==
            IF ind.exc # "none" THEN [exc |-> ind.exc]
            ELSE IF ind.step = 0 THEN [exc |-> "ZeroDivisionError"]
            ELSE [exc |-> "none", start |-> ind.start, stop |-> ind.stop,
                  step |-> ind.step,
                  length |-> FloorDiv(ind.stop - ind.start + ind.step
                                         - _sign(ind.step),
                                      ind.step)]
    IN  view(slice_indices(slicer, raw_len))

\* len of the k-th view of the chain; k = 0 is the top-level sequence
ChainLen(top, chain, k) == IF k = 0 THEN top.length ELSE chain[k].length

RECURSIVE ChainGetItemDunder(_, _, _, _)
RECURSIVE SlicedGetItem(_, _, _, _)

\* SlicedSequence.get_item(i) of the k-th view: raw[i * step + start]
SlicedGetItem(top, chain, k, i) ==
    ChainGetItemDunder(top, chain, k - 1, i * chain[k].step + chain[k].start)

\* x[i] for an integer i, x the k-th view of the chain (WrappedSequence
\* .__getitem__); the result's node is the top-level sequence
ChainGetItemDunder(top, chain, k, i) ==
    IF k = 0 THEN GetItemDunder(top, i)
    ELSE LET a == _adjust_index(i, chain[k].length)
         IN  IF a.exc # "none" THEN Raise(a.exc, NoneD, top)
             ELSE SlicedGetItem(top, chain, k, a.n)

\* [item for item in result]: __iter__ calls result.get_item(i) for i in
\* range(length), result being the last view of the chain
RECURSIVE Unpack(_, _, _, _)
Unpack(top, chain, i, items) ==
    LET next(r) == IF r.exc # "none" THEN Raise(r.exc, NoneD, r.node)
                   ELSE Unpack(r.node, chain, i + 1, Append(items, r.val))
    IN  IF i >= chain[Len(chain)].length THEN Ok(items, NoneD, top)
        ELSE next(SlicedGetItem(top, chain, Len(chain), i))

\* x[slicer] for a slice, x the k-th view of the chain (WrappedSequence
\* .__getitem__): the outcome is an exception, an unpacked list, or a view;
\* view is the SlicedSequence that was constructed on the way
GetSlice(top, chain, k, slicer) ==
    LET \* items is the outcome of [item for item in result]
        unpacked(view, items) ==
            [exc |-> items.exc, unpacked |-> items.exc = "none",
             items |-> items.val, view |-> view, top |-> items.node,
             chain |-> chain]
        \* view is SlicedSequence(self, slicer=i)
        sliced(view) ==
            IF view.exc # "none"
            THEN [exc |-> view.exc, unpacked |-> FALSE, items |-> <<>>,
                  view |-> view, top |-> top, chain |-> chain]
            ELSE IF view.length < UnpackBelow
            THEN unpacked(view, Unpack(top, Append(SubSeq(chain, 1, k), view),
                                       0, <<>>))
            ELSE [exc |-> "none", unpacked |-> FALSE, items |-> <<>>,
                  view |-> view, top |-> top,
                  chain |-> Append(SubSeq(chain, 1, k), view)]
    IN  sliced(SlicedSequence(ChainLen(top, chain, k), slicer))

\* ------------------------------------------------------------------------
\* __init__.py: RegexMembershipSequenceMatches and Match
\* ------------------------------------------------------------------------

\* the name foo of a group
Foo == "foo"

\* the pairs <<name, group id>> of the named groups of the items
RECURSIVE GroupNames(_)
GroupNames(items) ==
    UNION {LET t == items[k]
           IN  CASE t.op = "SUBPATTERN" ->
                       (IF t.name # "" THEN {<<t.name, t.group.v>>} ELSE {})
                       \cup GroupNames(t.body)
                 [] t.op \in {"MAX_REPEAT", "MIN_REPEAT", "ASSERT", "ASSERT_NOT"} ->
                       GroupNames(t.body)
                 [] t.op = "BRANCH" ->
                       UNION {GroupNames(t.alts[a]) : a \in 1..Len(t.alts)}
                 [] OTHER -> {}
           : k \in 1..Len(items)}

\* self.named_group_lookup = self.matcher.groupindex: names to group ids
named_group_lookup(pattern) ==
    [n \in {p[1] : p \in GroupNames(pattern)} |->
        CHOOSE g \in {p[2] : p \in GroupNames(pattern)} :
            <<n, g>> \in GroupNames(pattern)]

\* Match.__init__(string, groups, named_groups)
Match(string, groups, named_groups) ==
    [string |-> string, groups |-> groups, named_groups |-> named_groups,
     lastindex |-> Cardinality(DOMAIN groups) + 1]

\* self._groups[n]
MatchGroupsItem(m, n) ==
    IF n \in DOMAIN m.groups THEN [exc |-> "none", val |-> m.groups[n]]
    ELSE [exc |-> "KeyError", val |-> <<>>]

\* Match.group(n) for an integer n
MatchGroup(m, n) ==
    IF n = 0 THEN [exc |-> "none", val |-> m.string]
    ELSE MatchGroupsItem(m, n)

\* Match.group(name) for a string
MatchGroupByName(m, name) ==
    IF name \in DOMAIN m.named_groups
    THEN MatchGroupsItem(m, m.named_groups[name])
    ELSE [exc |-> "KeyError", val |-> <<>>]

\* Match.groups(): tuple(self._groups[i] for i in range(1, self.lastindex))
MatchGroups(m) ==
    IF \A i \in 1..(m.lastindex - 1) : i \in DOMAIN m.groups
    THEN [exc |-> "none", val |-> [i \in 1..(m.lastindex - 1) |-> m.groups[i]]]
    ELSE [exc |-> "KeyError", val |-> <<>>]

\* Match.groupdict()
MatchGroupDict(m) ==
    IF \A k \in DOMAIN m.named_groups : m.named_groups[k] \in DOMAIN m.groups
    THEN [exc |-> "none",
          val |-> [k \in DOMAIN m.named_groups |-> m.groups[m.named_groups[k]]]]
    ELSE [exc |-> "KeyError", val |-> <<>>]

\* RegexMembershipSequenceMatches.__getitem__ for an integer i; val is the
\* Match
MatchesGetItemDunder(node, i) ==
    LET \* r is super().get_item(i, d) with d = {}
        matched(r) ==
            IF r.exc # "none" THEN r
            ELSE Ok(Match(r.val, r.d.map, named_group_lookup(node.pattern)),
                    NoneD, r.node)
    IN  matched(RegexGetItem(node, i, EmptyD))

\* ------------------------------------------------------------------------
\* __init__.py: self.matcher, the pattern compiled by sre_compile
\* ------------------------------------------------------------------------

\* A position of the matcher in the string s: pos is the next character to
\* read (from 1), g maps the ids of the groups closed so far to their text.
MatchStart == [pos |-> 1, g |-> [k \in {} |-> <<>>]]

\* \w for str patterns compiled without re.ASCII, over the code points
\* below 256
IsWord(c) ==
    c \in (48..57) \cup (65..90) \cup (97..122) \cup {95}
          \cup {170, 178, 179, 181, 185, 186, 188, 189, 190}
          \cup (192..214) \cup (216..246) \cup (248..255)

\* \s likewise
IsSpace(c) == c \in (9..13) \cup (28..32) \cup {133, 160}

\* does the category accept the character c (\d: no decimal digit below
\* 256 but 0..9)
CategoryAccepts(y, c) ==
    CASE y = "CATEGORY_WORD"      -> IsWord(c)
      [] y = "CATEGORY_NOT_WORD"  -> ~IsWord(c)
      [] y = "CATEGORY_DIGIT"     -> c \in 48..57
      [] y = "CATEGORY_NOT_DIGIT" -> c \notin 48..57
      [] y = "CATEGORY_SPACE"     -> IsSpace(c)
      [] y = "CATEGORY_NOT_SPACE" -> ~IsSpace(c)

\* is there a word character at position p of s
WordAt(s, p) == p >= 1 /\ p <= Len(s) /\ IsWord(s[p])

\* does the item of a character set accept the character c
SetItemAccepts(item, c) ==
    IF item.op = "LITERAL" THEN item.c = c
    ELSE IF item.op = "RANGE" THEN item.l <= c /\ c <= item.h
    ELSE IF item.op = "CATEGORY" THEN CategoryAccepts(item.c, c)
    ELSE FALSE

\* does the character set (the argument of IN) accept the character c
SetAccepts(items, c) ==
    IF Len(items) > 0 /\ items[1].op = "NEGATE"
    THEN ~ \E k \in 2..Len(items) : SetItemAccepts(items[k], c)
    ELSE \E k \in 1..Len(items) : SetItemAccepts(items[k], c)

\* does the anchor hold at position p of s (flags: none)
AnchorHolds(where, s, p) ==
    IF where \in {"AT_BEGINNING", "AT_BEGINNING_STRING"} THEN p = 1
    ELSE IF where = "AT_END_STRING" THEN p = Len(s) + 1
    ELSE IF where = "AT_END"
    THEN p = Len(s) + 1 \/ (p = Len(s) /\ s[p] = 10)
    ELSE IF where = "AT_BOUNDARY"
    THEN Len(s) > 0 /\ WordAt(s, p - 1) # WordAt(s, p)
    ELSE Len(s) > 0 /\ WordAt(s, p - 1) = WordAt(s, p)

\* the state after reading one character accepted by ok
ReadChar(s, st, ok) ==
    IF st.pos <= Len(s) /\ ok THEN <<[st EXCEPT !.pos = st.pos + 1]>> ELSE <<>>

\* What a match is limited to: count cuts every repeat off (never below its
\* least count), chars is the set the wildcards (., [^...]) draw from. The
\* compiled matcher is not limited.
Unlimited == [count |-> None, chars |-> None]

\* the greatest count of a repeat under the limit
CapCount(lo, hi, lim) ==
    IF ~lim.count.some \/ hi <= lim.count.v THEN hi
    ELSE IF lim.count.v > lo THEN lim.count.v ELSE lo

\* may a wildcard read the character c under the limit
WildAllows(lim, c) == ~lim.chars.some \/ c \in lim.chars.v

\* the states of the lists in the order the matcher tries them, each state
\* where it comes first (a second try of a state fares as the first)
InOrder(lists) ==
    LET all  == Join(lists)
        keep == {j \in 1..Len(all) : \A i \in 1..(j - 1) : all[i] # all[j]}
    IN  [m \in 1..Cardinality(keep) |->
            all[CHOOSE j \in keep : Cardinality({i \in keep : i <= j}) = m]]

RECURSIVE MatchItems(_, _, _, _, _)
RECURSIVE MatchOne(_, _, _, _)
RECURSIVE MatchRepeat(_, _, _, _, _, _, _, _, _)
RECURSIVE LookStart(_, _, _, _)

\* the states in which a match of items[k..] that starts in st can end, in
\* the order the backtracking matcher reaches them
MatchItems(items, k, s, st, lim) ==
    LET \* sts are the ends of items[k]
        rest(sts) == InOrder([j \in 1..Len(sts) |->
                                 MatchItems(items, k + 1, s, sts[j], lim)])
    IN  IF k > Len(items) THEN <<st>>
        ELSE rest(MatchOne(items[k], s, st, lim))

\* repeats of body: n have been matched. Below the least count the body is
\* matched again; from the least count on the match may go on to what
\* follows, or the body is matched once more unless the repeat before this
\* one (started at position last, 0 for none) read nothing. A repeat that
\* reads nothing is thus matched once, and keeps the groups it closed. A
\* greedy repeat tries one more first, a lazy one tries it last.
MatchRepeat(greedy, body, lo, hi, n, last, s, st, lim) ==
    LET \* sts are the ends of one more match of the body
        more(sts, last2) ==
            InOrder([j \in 1..Len(sts) |->
                        MatchRepeat(greedy, body, lo, hi, n + 1, last2, s,
                                    sts[j], lim)])
        again == IF n < hi /\ st.pos # last
                 THEN more(MatchItems(body, 1, s, st, lim), st.pos)
                 ELSE <<>>
    IN  IF n < lo THEN more(MatchItems(body, 1, s, st, lim), last)
        ELSE IF greedy THEN InOrder(<<again, <<st>>>>)
        ELSE InOrder(<<<<st>>, again>>)

\* the state in which the body of the lookaround t is tried from st: a
\* lookahead from the position itself; a lookbehind from as many
\* characters back as its body is wide (the parser accepts it with a body
\* of one width only, so that is the one position from which the body can
\* end at st.pos). The empty list when the string does not reach that far
\* back.
LookStart(t, s, st, lim) ==
    IF t.dir = 1 THEN <<st>>
    ELSE LET from(p) == [st EXCEPT !.pos = p]
             ends(p) == MatchItems(t.body, 1, s, from(p), lim)
             back == {p \in 1..st.pos :
                         \E j \in 1..Len(ends(p)) : ends(p)[j].pos = st.pos}
         IN  IF back = {} THEN <<>> ELSE <<from(CHOOSE p \in back : TRUE)>>

\* the states in which a match of the one tuple t that starts in st can end
MatchOne(t, s, st, lim) ==
    CASE t.op = "LITERAL" ->
            ReadChar(s, st, st.pos <= Len(s) /\ s[st.pos] = t.c)
      [] t.op = "NOT_LITERAL" ->
            ReadChar(s, st, st.pos <= Len(s) /\ s[st.pos] # t.c
                               /\ WildAllows(lim, s[st.pos]))
      [] t.op = "ANY" ->
            ReadChar(s, st, st.pos <= Len(s) /\ s[st.pos] # 10
                               /\ WildAllows(lim, s[st.pos]))
      [] t.op = "IN" ->
            ReadChar(s, st, st.pos <= Len(s) /\ SetAccepts(t.items, s[st.pos])
                               /\ (t.items[1].op = "NEGATE" => WildAllows(lim, s[st.pos])))
      [] t.op = "BRANCH" ->
            InOrder([a \in 1..Len(t.alts) |-> MatchItems(t.alts[a], 1, s, st, lim)])
      [] t.op \in {"MAX_REPEAT", "MIN_REPEAT"} ->
            MatchRepeat(t.op = "MAX_REPEAT", t.body, t.lo,
                        CapCount(t.lo, t.hi, lim), 0, 0, s, st, lim)
      [] t.op = "SUBPATTERN" ->
            LET closed(sts) ==
                    [j \in 1..Len(sts) |->
                        IF t.group.some
                        THEN [sts[j] EXCEPT !.g =
                                 (t.group.v :> SubSeq(s, st.pos, sts[j].pos - 1))
                                 @@ sts[j].g]
                        ELSE sts[j]]
            IN  closed(MatchItems(t.body, 1, s, st, lim))
      [] t.op = "GROUPREF" ->
            IF t.n \notin DOMAIN st.g THEN <<>>
            ELSE LET w == st.g[t.n]
                 IN  IF st.pos + Len(w) - 1 <= Len(s)
                        /\ SubSeq(s, st.pos, st.pos + Len(w) - 1) = w
                     THEN <<[st EXCEPT !.pos = st.pos + Len(w)]>>
                     ELSE <<>>
      [] t.op = "AT" ->
            IF AnchorHolds(t.where, s, st.pos) THEN <<st>> ELSE <<>>
      [] t.op = "ASSERT" ->
            \* the body is matched once, the first way the matcher finds:
            \* the groups that match closed are kept, the position is not
            LET held(from) ==
                    IF from = <<>> THEN <<>>
                    ELSE LET ends == MatchItems(t.body, 1, s, from[1], lim)
                         IN  IF ends = <<>> THEN <<>>
                             ELSE <<[st EXCEPT !.g = ends[1].g]>>
            IN  held(LookStart(t, s, st, lim))
      [] t.op = "ASSERT_NOT" ->
            LET fails(from) ==
                    IF from = <<>> THEN <<st>>
                    ELSE IF MatchItems(t.body, 1, s, from[1], lim) = <<>>
                    THEN <<st>> ELSE <<>>
            IN  fails(LookStart(t, s, st, lim))

\* self.matcher.fullmatch(item) is not None
fullmatch(pattern, item) ==
    LET ends == MatchItems(pattern, 1, item, MatchStart, Unlimited)
    IN  \E j \in 1..Len(ends) : ends[j].pos = Len(item) + 1

\* item in S (RegexMembershipSequence.__contains__)
RegexContains(node, item) == fullmatch(node.pattern, item)

\* ------------------------------------------------------------------------
\* The state machine
\* ------------------------------------------------------------------------

\* largest size of a sequence that is sliced
MaxSize == 17

\* longest chain of SlicedSequence views over a sequence
MaxViews == 2

VARIABLES
    threshold,  \* the module global OFFSET_BREAK_THRESHOLD
    seq,        \* the object AllStrings returned (or the ParseError it raised)
    chain,      \* the SlicedSequence views taken of it, each the raw of the next
    res         \* the call the client has made and its outcome, until the
                \* client goes on to its next statement

vars == <<threshold, seq, chain, res>>

\* the charset handed to AllStrings: "-ab"
Charset == << <<45>>, <<97>>, <<98>> >>

\* the parsed patterns handed to AllStrings, as sre_parse.parse returns them
Patterns == <<
    \* (the empty pattern)
    <<>>,
    \* a
    <<Literal(97)>>,
    \* [ab]
    <<In(<<Literal(97), Literal(98)>>)>>,
    \* ab|-
    <<Branch(<<<<Literal(97), Literal(98)>>, <<Literal(45)>>>>)>>,
    \* (?:a|bc)
    <<Branch(<<<<Literal(97)>>, <<Literal(98), Literal(99)>>>>)>>,
    \* a?
    <<MaxRepeat(0, 1, <<Literal(97)>>)>>,
    \* a*
    <<MaxRepeat(0, MAXREPEAT, <<Literal(97)>>)>>,
    \* [ab]*
    <<MaxRepeat(0, MAXREPEAT, <<In(<<Literal(97), Literal(98)>>)>>)>>,
    \* [ab]+?
    <<MinRepeat(1, MAXREPEAT, <<In(<<Literal(97), Literal(98)>>)>>)>>,
    \* [-ab]{1,2}
    <<MaxRepeat(1, 2, <<In(<<Literal(45), Literal(97), Literal(98)>>)>>)>>,
    \* [-ab]{2}
    <<MaxRepeat(2, 2, <<In(<<Literal(45), Literal(97), Literal(98)>>)>>)>>,
    \* .
    <<AnyChar>>,
    \* ..
    <<AnyChar, AnyChar>>,
    \* .*
    <<MaxRepeat(0, MAXREPEAT, <<AnyChar>>)>>,
    \* [^a]
    <<NotLiteral(97)>>,
    \* [^-ab]
    <<In(<<Negate, Literal(45), Literal(97), Literal(98)>>)>>,
    \* [^-ab]*
    <<MaxRepeat(0, MAXREPEAT, <<In(<<Negate, Literal(45), Literal(97), Literal(98)>>)>>)>>,
    \* [^-ab]{1,2}
    <<MaxRepeat(1, 2, <<In(<<Negate, Literal(45), Literal(97), Literal(98)>>)>>)>>,
    \* a{0}
    <<MaxRepeat(0, 0, <<Literal(97)>>)>>,
    \* a{2}
    <<MaxRepeat(2, 2, <<Literal(97)>>)>>,
    \* [a-b]{0,2}-
    <<MaxRepeat(0, 2, <<In(<<Range(97, 98)>>)>>), Literal(45)>>,
    \* [ab][-ab]
    <<In(<<Literal(97), Literal(98)>>), In(<<Literal(45), Literal(97), Literal(98)>>)>>,
    \* [ab]-[-ab]
    <<In(<<Literal(97), Literal(98)>>), Literal(45), In(<<Literal(45), Literal(97), Literal(98)>>)>>,
    \* [ab][-ab]?
    <<In(<<Literal(97), Literal(98)>>), MaxRepeat(0, 1, <<In(<<Literal(45), Literal(97), Literal(98)>>)>>)>>,
    \* [ab]*[-a]
    <<MaxRepeat(0, MAXREPEAT, <<In(<<Literal(97), Literal(98)>>)>>), In(<<Literal(45), Literal(97)>>)>>,
    \* [ab][-ab][ab]
    <<In(<<Literal(97), Literal(98)>>), In(<<Literal(45), Literal(97), Literal(98)>>), In(<<Literal(97), Literal(98)>>)>>,
    \* 1(234?|49?)
    <<Literal(49), SubPattern(Some(1), <<Branch(<<<<Literal(50), Literal(51), MaxRepeat(0, 1, <<Literal(52)>>)>>, <<Literal(52), MaxRepeat(0, 1, <<Literal(57)>>)>>>>)>>)>>,
    \* [0-2]{2}
    <<MaxRepeat(2, 2, <<In(<<Range(48, 50)>>)>>)>>,
    \* (?:a|[ab]|[^-ab]|-b)
    <<Branch(<<<<Literal(97)>>, <<In(<<Literal(97), Literal(98)>>)>>, <<In(<<Negate, Literal(45), Literal(97), Literal(98)>>)>>, <<Literal(45), Literal(98)>>>>)>>,
    \* (?:[^-ab]|ab|b)
    <<Branch(<<<<In(<<Negate, Literal(45), Literal(97), Literal(98)>>)>>, <<Literal(97), Literal(98)>>, <<Literal(98)>>>>)>>,
    \* a(b|c|)
    <<Literal(97), SubPattern(Some(1), <<Branch(<<<<Literal(98)>>, <<Literal(99)>>, <<>>>>)>>)>>,
    \* a(|b|c)
    <<Literal(97), SubPattern(Some(1), <<Branch(<<<<>>, <<Literal(98)>>, <<Literal(99)>>>>)>>)>>,
    \* a|a
    <<Literal(97), Branch(<<<<>>, <<>>>>)>>,
    \* (a?)?
    <<MaxRepeat(0, 1, <<SubPattern(Some(1), <<MaxRepeat(0, 1, <<Literal(97)>>)>>)>>)>>,
    \* (a*)*
    <<MaxRepeat(0, MAXREPEAT, <<SubPattern(Some(1), <<MaxRepeat(0, MAXREPEAT, <<Literal(97)>>)>>)>>)>>,
    \* (?:[ab]|-a){2}
    <<MaxRepeat(2, 2, <<Branch(<<<<In(<<Literal(97), Literal(98)>>)>>, <<Literal(45), Literal(97)>>>>)>>)>>,
    \* (a)\1
    <<SubPattern(Some(1), <<Literal(97)>>), GroupRef(1)>>,
    \* ((a))\2
    <<SubPattern(Some(1), <<SubPattern(Some(2), <<Literal(97)>>)>>), GroupRef(2)>>,
    \* ((a))\1
    <<SubPattern(Some(1), <<SubPattern(Some(2), <<Literal(97)>>)>>), GroupRef(1)>>,
    \* (a|b)\1
    <<SubPattern(Some(1), <<In(<<Literal(97), Literal(98)>>)>>), GroupRef(1)>>,
    \* ([ab])-\1
    <<SubPattern(Some(1), <<In(<<Literal(97), Literal(98)>>)>>), Literal(45), GroupRef(1)>>,
    \* (?:(a)|b)\1
    <<Branch(<<<<SubPattern(Some(1), <<Literal(97)>>)>>, <<Literal(98)>>>>), GroupRef(1)>>,
    \* x((a)|b)\2
    <<Literal(120), SubPattern(Some(1), <<Branch(<<<<SubPattern(Some(2), <<Literal(97)>>)>>, <<Literal(98)>>>>)>>), GroupRef(2)>>,
    \* (a|b)(-|b)\2\1
    <<SubPattern(Some(1), <<In(<<Literal(97), Literal(98)>>)>>), SubPattern(Some(2), <<In(<<Literal(45), Literal(98)>>)>>), GroupRef(2), GroupRef(1)>>,
    \* ((a|b))\2
    <<SubPattern(Some(1), <<SubPattern(Some(2), <<In(<<Literal(97), Literal(98)>>)>>)>>), GroupRef(2)>>,
    \* (a)\1*
    <<SubPattern(Some(1), <<Literal(97)>>), MaxRepeat(0, MAXREPEAT, <<GroupRef(1)>>)>>,
    \* (a){2}\1
    <<MaxRepeat(2, 2, <<SubPattern(Some(1), <<Literal(97)>>)>>), GroupRef(1)>>,
    \* (a)(\1)
    <<SubPattern(Some(1), <<Literal(97)>>), SubPattern(Some(2), <<GroupRef(1)>>)>>,
    \* (a)(?:b|\1)
    <<SubPattern(Some(1), <<Literal(97)>>), Branch(<<<<Literal(98)>>, <<GroupRef(1)>>>>)>>,
    \* (a)|\1
    <<Branch(<<<<SubPattern(Some(1), <<Literal(97)>>)>>, <<GroupRef(1)>>>>)>>,
    \* ((a)\2)
    <<SubPattern(Some(1), <<SubPattern(Some(2), <<Literal(97)>>), GroupRef(2)>>)>>,
    \* ([ab]|-a){1,2}\1
    <<MaxRepeat(1, 2, <<SubPattern(Some(1), <<Branch(<<<<In(<<Literal(97), Literal(98)>>)>>, <<Literal(45), Literal(97)>>>>)>>)>>), GroupRef(1)>>,
    \* (([ab])-)b
    <<SubPattern(Some(1), <<SubPattern(Some(2), <<In(<<Literal(97), Literal(98)>>)>>), Literal(45)>>), Literal(98)>>,
    \* z([ab]{2})
    <<Literal(122), SubPattern(Some(1), <<MaxRepeat(2, 2, <<In(<<Literal(97), Literal(98)>>)>>)>>)>>,
    \* ([ab]{2})
    <<SubPattern(Some(1), <<MaxRepeat(2, 2, <<In(<<Literal(97), Literal(98)>>)>>)>>)>>,
    \* (?P<foo>[ab])x
    <<NamedSubPattern(Some(1), "foo", <<In(<<Literal(97), Literal(98)>>)>>), Literal(120)>>,
    \* ^a$
    <<At("AT_BEGINNING"), Literal(97), At("AT_END")>>,
    \* \Aa\Z
    <<At("AT_BEGINNING_STRING"), Literal(97), At("AT_END_STRING")>>,
    \* \ba\b
    <<At("AT_BOUNDARY"), Literal(97), At("AT_BOUNDARY")>>,
    \* ^\b^[ab]
    <<At("AT_BEGINNING"), At("AT_BOUNDARY"), At("AT_BEGINNING"), In(<<Literal(97), Literal(98)>>)>>,
    \* ^^^$\b$
    <<At("AT_BEGINNING"), At("AT_BEGINNING"), At("AT_BEGINNING"), At("AT_END"), At("AT_BOUNDARY"), At("AT_END")>>,
    \* \b-
    <<At("AT_BOUNDARY"), Literal(45)>>,
    \* -\b
    <<Literal(45), At("AT_BOUNDARY")>>,
    \* \b
    <<At("AT_BOUNDARY")>>,
    \* $\b
    <<At("AT_END"), At("AT_BOUNDARY")>>,
    \* a$\b
    <<Literal(97), At("AT_END"), At("AT_BOUNDARY")>>,
    \* (^a)
    <<SubPattern(Some(1), <<At("AT_BEGINNING"), Literal(97)>>)>>,
    \* (a$)
    <<SubPattern(Some(1), <<Literal(97), At("AT_END")>>)>>,
    \* (?:a|b$)
    <<Branch(<<<<Literal(97)>>, <<Literal(98), At("AT_END")>>>>)>>,
    \* ^(a|b)$
    <<At("AT_BEGINNING"), SubPattern(Some(1), <<In(<<Literal(97), Literal(98)>>)>>), At("AT_END")>>,
    \* a^b
    <<Literal(97), At("AT_BEGINNING"), Literal(98)>>,
    \* a$b
    <<Literal(97), At("AT_END"), Literal(98)>>,
    \* a\bb
    <<Literal(97), At("AT_BOUNDARY"), Literal(98)>>,
    \* \Ba
    <<At("AT_NON_BOUNDARY"), Literal(97)>>,
    \* a\B
    <<Literal(97), At("AT_NON_BOUNDARY")>>,
    \* (?:a$|b)c
    <<Branch(<<<<Literal(97), At("AT_END")>>, <<Literal(98)>>>>), Literal(99)>>,
    \* (?:^a|b)
    <<Branch(<<<<At("AT_BEGINNING"), Literal(97)>>, <<Literal(98)>>>>)>>,
    \* (?=a)a
    <<LookAround(1, <<Literal(97)>>), Literal(97)>>,
    \* (?!a)b
    <<NegLookAround(1, <<Literal(97)>>), Literal(98)>>,
    \* ^((a)\2)$
    <<At("AT_BEGINNING"), SubPattern(Some(1), <<SubPattern(Some(2), <<Literal(97)>>), GroupRef(2)>>), At("AT_END")>>,
    \* (a)(b)
    <<SubPattern(Some(1), <<Literal(97)>>), SubPattern(Some(2), <<Literal(98)>>)>>,
    \* x((a))
    <<Literal(120), SubPattern(Some(1), <<SubPattern(Some(2), <<Literal(97)>>)>>)>>,
    \* \d
    <<In(<<Category("CATEGORY_DIGIT")>>)>>,
    \* \s
    <<In(<<Category("CATEGORY_SPACE")>>)>>,
    \* [^\d]
    <<In(<<Negate, Category("CATEGORY_DIGIT")>>)>>,
    \* [\da]
    <<In(<<Category("CATEGORY_DIGIT"), Literal(97)>>)>>,
    \* (a?)?\1
    <<MaxRepeat(0, 1, <<SubPattern(Some(1), <<MaxRepeat(0, 1, <<Literal(97)>>)>>)>>), GroupRef(1)>>,
    \* (a*)*b\1
    <<MaxRepeat(0, MAXREPEAT, <<SubPattern(Some(1), <<MaxRepeat(0, MAXREPEAT, <<Literal(97)>>)>>)>>), Literal(98), GroupRef(1)>>,
    \* (?=(a))a\1
    <<LookAround(1, <<SubPattern(Some(1), <<Literal(97)>>)>>), Literal(97), GroupRef(1)>>,
    \* a(?<=a)b
    <<Literal(97), LookAround(-1, <<Literal(97)>>), Literal(98)>>,
    \* a(?<!a)b
    <<Literal(97), NegLookAround(-1, <<Literal(97)>>), Literal(98)>>
>>

\* AllStrings(regex, flags, charset, max_count, relaxed)
AllStrings(regex, flags, charset, max_count, relaxed, thr) ==
    RegexMembershipSequence(regex, flags, charset, max_count, relaxed, thr, FALSE)

\* AllMatches(regex, flags, charset, max_count, relaxed)
AllMatches(regex, flags, charset, max_count, relaxed, thr) ==
    RegexMembershipSequence(regex, flags, charset, max_count, relaxed, thr, TRUE)

NoCall == [op |-> "none"]

\* the largest group id Match.group is asked for
MaxGroup == 3

\* the integers a call is tried with, for a sequence of the given length
IndexInputs(length) == (-(length + 2))..(length + 1)

Init ==
    /\ threshold = OFFSET_BREAK_THRESHOLD
    /\ \E k \in 1..Len(Patterns), mc \in 0..MaxCount :
          \/ seq = AllStrings(Patterns[k], {}, Charset, Some(mc), FALSE, threshold)
          \/ seq = AllMatches(Patterns[k], {}, Charset, Some(mc), FALSE, threshold)
    /\ chain = <<>>
    /\ res = NoCall

\* the client is done with the outcome of its call and goes on
Return ==
    /\ res # NoCall
    /\ res' = NoCall
    /\ UNCHANGED <<threshold, seq, chain>>

\* S[i] for an integer i
Index(i) ==
    /\ res = NoCall
    /\ seq.exc = "none"
    /\ ~seq.matches
    /\ LET returned(r) ==
               /\ seq' = r.node
               /\ res' = [op |-> "index", i |-> i, din |-> NoneD,
                          exc |-> r.exc, val |-> r.val, d |-> NoneD]
       IN  returned(GetItemDunder(seq, i))
    /\ UNCHANGED <<threshold, chain>>

\* S.get_item(i, d)
GetItemCall(i, d) ==
    /\ res = NoCall
    /\ seq.exc = "none"
    /\ LET returned(r) ==
               /\ seq' = r.node
               /\ res' = [op |-> "get_item", i |-> i, din |-> d,
                          exc |-> r.exc, val |-> r.val, d |-> r.d]
       IN  returned(GetItem(seq, i, d))
    /\ UNCHANGED <<threshold, chain>>

\* M[i] for an integer i, M made by AllMatches; the outcome keeps the Match
\* and what its accessors return
MatchIndex(i) ==
    /\ res = NoCall
    /\ seq.exc = "none"
    /\ seq.matches
    /\ LET returned(r) ==
               /\ seq' = r.node
               /\ res' = IF r.exc # "none"
                         THEN [op |-> "match", i |-> i, exc |-> r.exc]
                         ELSE [op |-> "match", i |-> i, exc |-> "none",
                               m |-> r.val,
                               group |-> [n \in 0..MaxGroup |-> MatchGroup(r.val, n)],
                               byname |-> MatchGroupByName(r.val, Foo),
                               groups |-> MatchGroups(r.val),
                               groupdict |-> MatchGroupDict(r.val)]
       IN  returned(MatchesGetItemDunder(seq, i))
    /\ UNCHANGED <<threshold, chain>>

\* len(S) of the constructed sequence; 0 when construction raised
SeqLength == IF seq.exc = "none" THEN seq.length ELSE 0

Next ==
    \/ \E i \in IndexInputs(SeqLength) : Index(i)
    \/ \E i \in IndexInputs(SeqLength), d \in {NoneD, EmptyD} : GetItemCall(i, d)
    \/ \E i \in IndexInputs(SeqLength) : MatchIndex(i)
    \/ Return

Spec == Init /\ [][Next]_vars

\* ---- relaxed: the sequences of both modes

\* AllStrings(regex, charset=..., max_count=..., relaxed=...), likewise
\* AllMatches
InitRelaxed ==
    /\ threshold = OFFSET_BREAK_THRESHOLD
    /\ \E k \in 1..Len(Patterns), mc \in 0..MaxCount, relaxed \in BOOLEAN :
          \/ seq = AllStrings(Patterns[k], {}, Charset, Some(mc), relaxed, threshold)
          \/ seq = AllMatches(Patterns[k], {}, Charset, Some(mc), relaxed, threshold)
    /\ chain = <<>>
    /\ res = NoCall

SpecRelaxed == InitRelaxed /\ [][Next]_vars

\* ---- slicing: a sequence of n one-character strings, its slices and views

\* the charset "abc..." of n characters
SliceCharset(n) == [k \in 1..n |-> <<96 + k>>]

\* the bounds a slice is tried with, for a sequence of the given length
BoundInputs(length) ==
    {None} \cup {Some(v) : v \in {-(length + 1), -length, -1, 0, 1,
                                  length - 1, length, length + 1}}

StepInputs == {None} \cup {Some(v) : v \in -2..2}

InitSlice ==
    /\ threshold = OFFSET_BREAK_THRESHOLD
    /\ \E n \in 0..MaxSize :
          seq = AllStrings(<<AnyChar>>, {}, SliceCharset(n), None, FALSE, threshold)
    /\ chain = <<>>
    /\ res = NoCall

\* the newest view V the client holds: the last of the chain, or the
\* sequence itself while no view has been taken
Newest == Len(chain)

\* V = V[start:stop:step]: the slice is taken of the newest view, and a view
\* it returns becomes the newest
TakeSlice(slicer) ==
    /\ res = NoCall
    /\ Newest < MaxViews
    /\ LET returned(g) ==
               /\ seq' = g.top
               /\ chain' = g.chain
               /\ res' = [op |-> "slice", level |-> Newest, slicer |-> slicer,
                          size |-> ChainLen(seq, chain, Newest), exc |-> g.exc,
                          view |-> g.view, unpacked |-> g.unpacked,
                          items |-> g.items]
       IN  returned(GetSlice(seq, chain, Newest, slicer))
    /\ UNCHANGED threshold

\* V[i] for an integer i
ViewIndex(i) ==
    /\ res = NoCall
    /\ LET returned(r) ==
               /\ seq' = r.node
               /\ res' = [op |-> "view_index", level |-> Newest, i |-> i,
                          size |-> ChainLen(seq, chain, Newest),
                          exc |-> r.exc, val |-> r.val]
       IN  returned(ChainGetItemDunder(seq, chain, Newest, i))
    /\ UNCHANGED <<threshold, chain>>

NextSlice ==
    \/ \E start \in BoundInputs(ChainLen(seq, chain, Newest)),
          stop \in BoundInputs(ChainLen(seq, chain, Newest)),
          step \in StepInputs : TakeSlice(Slice(start, stop, step))
    \/ \E i \in IndexInputs(ChainLen(seq, chain, Newest)) : ViewIndex(i)
    \/ Return

SpecSlice == InitSlice /\ [][NextSlice]_vars

\* ---- fastdivmod: the digit streams of integers

\* the largest x, base and chunk the functions are applied to as integers
MaxX == 40

MaxBy == 4

MaxChunk == 16

\* x, by and chunk of a call; chunk is None or an integer
InitDigits ==
    /\ threshold = OFFSET_BREAK_THRESHOLD
    /\ \E x \in 0..MaxX, by \in 0..MaxBy,
          chunk \in {None} \cup {Some(c) : c \in 0..MaxChunk} :
          seq = [kind |-> "ints", x |-> x, by |-> by, chunk |-> chunk]
    /\ chain = <<>>
    /\ res = NoCall

\* list(divmod_iter(x, by, chunk))
DivmodIter ==
    /\ res = NoCall
    /\ seq.kind = "ints"
    /\ res' = [op |-> "divmod_iter", out |-> divmod_iter(seq.x, seq.by, seq.chunk)]
    /\ UNCHANGED <<threshold, seq, chain>>

\* list(divmod_iter_basic(x, by, chunk))
DivmodIterBasic ==
    /\ res = NoCall
    /\ seq.kind = "ints"
    /\ res' = [op |-> "divmod_iter_basic",
               out |-> divmod_iter_basic(seq.x, seq.by, seq.chunk)]
    /\ UNCHANGED <<threshold, seq, chain>>

\* list(divmod_iter_chunking(x, by, chunk)); without a chunk the chunk is
\* by ** 1024, which only the integers given by their digits (below) reach
DivmodIterChunking ==
    /\ res = NoCall
    /\ seq.kind = "ints"
    /\ seq.chunk.some \/ seq.by = 1
    /\ res' = [op |-> "divmod_iter_chunking",
               out |-> divmod_iter_chunking(seq.x, seq.by, seq.chunk)]
    /\ UNCHANGED <<threshold, seq, chain>>

\* ---- integers too large for the checker's arithmetic: x is held as its
\* limbs in base 2^LimbBits, least significant first, without zero limbs at
\* the high end (0 is the empty sequence); by is 2 or 4, so that by ** n is a
\* power of two

LimbBits == 30

\* s without its zeros at the high end
Normalise(s) ==
    LET nz == {k \in 1..Len(s) : s[k] # 0}
    IN  IF nz = {} THEN <<>>
        ELSE SubSeq(s, 1, CHOOSE k \in nz : \A l \in nz : l <= k)

\* x < by
BigLess(x, by) == x = <<>> \/ (Len(x) = 1 /\ x[1] < by)

\* x.bit_length()
BigBitLength(x) ==
    IF x = <<>> THEN 0 ELSE (Len(x) - 1) * LimbBits + bit_length(x[Len(x)])

\* x // 2 ** bits
BigShiftRight(x, bits) ==
    LET a == bits \div LimbBits
        b == bits % LimbBits
    IN  IF Len(x) <= a THEN <<>>
        ELSE Normalise([k \in 1..(Len(x) - a) |->
                 (x[k + a] \div Pow(2, b))
                 + (IF k + a + 1 <= Len(x)
                    THEN (x[k + a + 1] % Pow(2, b)) * Pow(2, LimbBits - b)
                    ELSE 0)])

\* x % 2 ** bits
BigLowBits(x, bits) ==
    LET a == bits \div LimbBits
        b == bits % LimbBits
    IN  IF Len(x) <= a THEN x
        ELSE Normalise([k \in 1..(a + 1) |->
                 IF k <= a THEN x[k] ELSE x[k] % Pow(2, b)])

\* the bits of by ** n, a power of two
PowBits(by, n) == n * (bit_length(by) - 1)

\* divmod(x, by ** n): by ** n is a power of two, so the quotient is x without
\* its low bits and the remainder those bits
BigDivmod(x, by, n) ==
    [q |-> BigShiftRight(x, PowBits(by, n)), r |-> BigLowBits(x, PowBits(by, n))]

\* a number below by as an integer of the checker
Small(x) == IF x = <<>> THEN 0 ELSE x[1]

\* the bases, and for each the numbers of digits around the one at which
\* the dispatcher's estimate x.bit_length() // by.bit_length() reaches 1024
BigBases == {2, 4}

BigLens(by) ==
    LET n == (DivisionsLimit * bit_length(by)) \div (bit_length(by) - 1)
    IN  (n - 1)..(n + 1)

\* the digit at position j (from 0) of a number of n digits in base by:
\* by ** (n - 1), by ** n - 1, or one with mixed digits
ShapeDigit(by, n, shape, j) ==
    IF j >= n THEN 0
    ELSE CASE shape = "power" -> IF j = n - 1 THEN 1 ELSE 0
           [] shape = "full"  -> by - 1
           [] shape = "mixed" -> IF j = n - 1 THEN by - 1 ELSE (j + 1) % by

\* the value of its digits j, j + 1, ..., below position top
RECURSIVE ShapeLimb(_, _, _, _, _)
ShapeLimb(by, n, shape, j, top) ==
    IF j >= top THEN 0
    ELSE ShapeDigit(by, n, shape, j) + by * ShapeLimb(by, n, shape, j + 1, top)

\* the number as limbs
BigNumber(by, n, shape) ==
    LET per == LimbBits \div (bit_length(by) - 1)     \* digits in a limb
    IN  Normalise([k \in 1..((n + per - 1) \div per) |->
                      ShapeLimb(by, n, shape, per * (k - 1), per * k)])

InitBigDigits ==
    /\ threshold = OFFSET_BREAK_THRESHOLD
    /\ \E by \in BigBases, shape \in {"power", "full", "mixed"} : \E n \in BigLens(by) :
          seq = [kind |-> "limbs", x |-> BigNumber(by, n, shape), by |-> by,
                 chunk |-> None]
    /\ chain = <<>>
    /\ res = NoCall

\* a generator that has not run yet: x is what is left of the number, m the
\* digit it yielded last and count how many it has yielded
Generator(strategy, x) ==
    [op |-> "generator", strategy |-> strategy, x |-> x, this_chunk |-> <<>>,
     left |-> 0, started |-> FALSE, done |-> FALSE, m |-> 0, count |-> 0]

\* divmod_iter(x, by): the list [x] (held as a generator that yielded x and
\* ended), or the generator of the strategy
BigDivmodIter ==
    /\ res = NoCall
    /\ seq.kind = "limbs"
    /\ res' = IF BigLess(seq.x, seq.by)
              THEN [Generator("list", <<>>) EXCEPT
                        !.m = Small(seq.x),
                        !.count = 1, !.done = TRUE]
              ELSE IF BigBitLength(seq.x) \div bit_length(seq.by) < DivisionsLimit
              THEN Generator("basic", seq.x)
              ELSE Generator("chunking", seq.x)
    /\ UNCHANGED <<threshold, seq, chain>>

\* divmod_iter_basic up to its next yield, or to its end
BasicResume(g, by) ==
    LET \* dm is divmod(x, by)
        yielded(dm) == [g EXCEPT !.x = dm.q, !.m = Small(dm.r),
                                 !.count = g.count + 1, !.started = TRUE]
    IN  IF g.x = <<>> THEN [g EXCEPT !.done = TRUE]
        ELSE yielded(BigDivmod(g.x, by, 1))

\* the body of the inner loop up to its yield
ChunkingYield(g, by, x, this_chunk, left) ==
    LET \* dm is divmod(this_chunk, by)
        yielded(dm) == [g EXCEPT !.x = x, !.this_chunk = dm.q, !.left = left,
                                 !.m = Small(dm.r), !.count = g.count + 1,
                                 !.started = TRUE]
    IN  yielded(BigDivmod(this_chunk, by, 1))

\* the outer loop from its test: the next chunk is split off and the inner
\* loop entered, or the generator ends
ChunkingOuter(g, by, digits_per_chunk) ==
    LET \* dm is divmod(x, chunk) with chunk = by ** digits_per_chunk
        split(dm) == ChunkingYield(g, by, dm.q, dm.r, digits_per_chunk)
    IN  IF g.x = <<>> THEN [g EXCEPT !.done = TRUE]
        ELSE split(BigDivmod(g.x, by, digits_per_chunk))

\* divmod_iter_chunking without the break after the yield
ChunkingResumeNoBreak(g, by, digits_per_chunk) ==
    IF g.started /\ g.left > 1
    THEN ChunkingYield(g, by, g.x, g.this_chunk, g.left - 1)
    ELSE ChunkingOuter(g, by, digits_per_chunk)

\* divmod_iter_chunking (by >= 2, chunk None) up to its next yield, or to its
\* end; left counts the iterations of the inner loop not yet finished
ChunkingResume(g, by, digits_per_chunk) ==
    IF g.started /\ ~(g.this_chunk = <<>> /\ g.x = <<>>) /\ g.left > 1
    THEN ChunkingYield(g, by, g.x, g.this_chunk, g.left - 1)
    ELSE ChunkingOuter(g, by, digits_per_chunk)

\* next(g) on the generator of divmod_iter_basic
BigBasicNext ==
    /\ res.op = "generator" /\ res.strategy = "basic" /\ ~res.done
    /\ res' = BasicResume(res, seq.by)
    /\ UNCHANGED <<threshold, seq, chain>>

\* next(g) on the generator of divmod_iter_chunking
BigChunkingNext ==
    /\ res.op = "generator" /\ res.strategy = "chunking" /\ ~res.done
    /\ res' = ChunkingResume(res, seq.by, DefaultDigitsPerChunk)
    /\ UNCHANGED <<threshold, seq, chain>>

\* the largest exponent powersum is applied to
MaxExp == 6

\* x, low and high of a call of powersum
InitPowersum ==
    /\ threshold = OFFSET_BREAK_THRESHOLD
    /\ \E x \in 0..MaxBy, low \in 0..MaxExp : \E high \in (low - 1)..MaxExp :
          seq = [kind |-> "powersum", x |-> x, low |-> low, high |-> high]
    /\ chain = <<>>
    /\ res = NoCall

\* powersum(x, low, high)
Powersum ==
    /\ res = NoCall
    /\ seq.kind = "powersum"
    /\ res' = [op |-> "powersum", out |-> powersum(seq.x, seq.low, seq.high)]
    /\ UNCHANGED <<threshold, seq, chain>>

NextDigits ==
    \/ DivmodIter
    \/ Powersum
    \/ DivmodIterBasic
    \/ DivmodIterChunking
    \/ BigDivmodIter
    \/ BigBasicNext
    \/ BigChunkingNext
    \/ Return

SpecDigits == (InitDigits \/ InitBigDigits \/ InitPowersum) /\ [][NextDigits]_vars

\* ---- cachingseq: reads of a CachingFuncSequence

\* the longest CachingFuncSequence, and the most invocations of func and
\* inc_func that are followed
MaxLength == 2

MaxCalls == 3

\* what func and inc_func may return: None, or a pair
CacheValues == {NoneValue, <<0, 1>>, <<1, 2>>}

\* a CachingFuncSequence of some length, with func and possibly inc_func;
\* chain lists the positions func or inc_func was invoked for
InitCache ==
    /\ threshold = OFFSET_BREAK_THRESHOLD
    /\ \E n \in 0..MaxLength, has_inc \in BOOLEAN :
       \E func \in [0..(n - 1) -> CacheValues], inc_func \in [0..(n - 1) -> CacheValues] :
          /\ ~has_inc => inc_func = func
          /\ seq = [kind |-> "caching", cs |-> CachingFuncSequence(n, has_inc),
                    func |-> func, inc_func |-> inc_func]
    /\ chain = <<>>
    /\ res = NoCall

\* s[i]: func or inc_func is invoked when the read gets past the test of
\* the cached value
CacheRead(i) ==
    /\ res = NoCall
    /\ seq.kind = "caching"
    /\ Len(chain) < MaxCalls
    /\ LET at == IF i < 0 THEN i + seq.cs.length ELSE i
           returned(r) ==
               /\ seq' = [seq EXCEPT !.cs = r.cs]
               /\ res' = [op |-> "read", i |-> i, exc |-> r.exc, v |-> r.v,
                          before |-> seq.cs.cache]
               /\ chain' = IF r.exc = "none" /\ CacheLookup(seq.cs, at) = NoneValue
                           THEN Append(chain, at) ELSE chain
       IN  returned(CachingGetItem(seq.cs, i, seq.func, seq.inc_func))
    /\ UNCHANGED threshold

\* s.func = func
SetFunc(func) ==
    /\ res = NoCall
    /\ seq.kind = "caching"
    /\ func # seq.func
    /\ seq' = [seq EXCEPT !.func = func]
    /\ UNCHANGED <<threshold, chain, res>>

NextCache ==
    \/ \E i \in IndexInputs(seq.cs.length) : CacheRead(i)
    \/ \E func \in [0..(seq.cs.length - 1) -> CacheValues] : SetFunc(func)
    \/ Return

SpecCache == InitCache /\ [][NextCache]_vars

\* ---- threads: lookups on one RepetitiveSequence from several threads; a
\* thread switch can fall between any two steps of
\* CachingFuncSequence.__getitem__ on self.offsets

\* the threads that share the sequence
Threads == {"t1", "t2"}

\* lookups one thread makes
MaxLookups == 2

\* the contents the shared node repeats
ThreadContents == {<<>>, << <<97>> >>, << <<97>>, <<98>> >>}

\* a thread outside get_item
Idle == [pc |-> "idle", n |-> 0]

\* the values OFFSET_BREAK_THRESHOLD is set to before the node is built
Thresholds == {0, 1, 3, OFFSET_BREAK_THRESHOLD}

InitThreads ==
    /\ threshold \in Thresholds
    /\ \E content \in ThreadContents, lowest \in 0..1, more \in 0..4 :
          \* the longer tables are those of the contents with few strings
          /\ Len(content) = 2 => more <= 2
          /\ seq = [kind |-> "threads",
                    rep |-> RepetitiveSequence(MkList(content), lowest,
                                               lowest + more, threshold),
                    threads |-> [t \in Threads |-> Idle]]
    /\ chain = <<>>
    /\ res = NoCall

\* the frame th at the read self.offsets[k]; at names the read: "bisect"
\* inside bisect_left, "probe" the test after it, "entry" the read for num,
\* "count" the read for count
ReadOffsets(th, at, k) == [th EXCEPT !.pc = "check", !.at = at, !.k = k]

\* bisect_left from the top of its loop to its next read of self.offsets,
\* and past its end to the next read of get_item
Search(th, len) ==
    IF th.lo < th.hi THEN ReadOffsets(th, "bisect", (th.lo + th.hi) \div 2)
    ELSE IF th.lo = len THEN ReadOffsets(th, "entry", th.lo - 1)
    ELSE ReadOffsets(th, "probe", th.lo)

\* get_item of frame th from the return of self.offsets[th.k], which is v,
\* to its next read of self.offsets or to its return
Resume(th, v, rep) ==
    LET x == <<th.i, -1>>
        \* out is the outcome of the rest of get_item
        return(out) == [th EXCEPT !.pc = "done", !.exc = out.exc, !.val = out.val]
    IN  IF th.at = "bisect"
        THEN Search(IF TupleLess(v, x) THEN [th EXCEPT !.lo = th.k + 1]
                                       ELSE [th EXCEPT !.hi = th.k],
                    rep.offsets.length)
        ELSE IF th.at = "probe"
        THEN ReadOffsets(th, "entry", IF v[1] > th.i THEN th.k - 1 ELSE th.k)
        ELSE IF th.at = "entry"
        THEN ReadOffsets([th EXCEPT !.num = th.i - v[1]], "count", th.k)
        ELSE return(RepBuild(rep, th.num, v[2], EmptyD))

\* as ThreadLookup, and every index is searched below the break
ThreadLookupTight(t, i) ==
    /\ seq.kind = "threads"
    /\ seq.threads[t].pc \in {"idle", "done"}
    /\ seq.threads[t].n < MaxLookups
    /\ LET rep == seq.rep
       IN  seq' = [seq EXCEPT !.threads[t] =
                      Search([pc |-> "search", n |-> seq.threads[t].n + 1,
                              i |-> i, lo |-> 0, hi |-> rep.index_of_offset,
                              at |-> "bisect", k |-> 0, num |-> 0,
                              v |-> NoneValue,
                              exc |-> "none", val |-> <<>>],
                             rep.offsets.length)]
    /\ UNCHANGED <<threshold, chain, res>>

\* thread t calls S.get_item(i, d) with a d of its own
ThreadLookup(t, i) ==
    /\ seq.kind = "threads"
    /\ seq.threads[t].pc \in {"idle", "done"}
    /\ seq.threads[t].n < MaxLookups
    /\ LET rep == seq.rep
           low == i < rep.offset_break
       IN  seq' = [seq EXCEPT !.threads[t] =
                      Search([pc |-> "search", n |-> seq.threads[t].n + 1,
                              i |-> i,
                              lo |-> IF low THEN 0 ELSE rep.index_of_offset,
                              hi |-> IF low THEN rep.index_of_offset
                                            ELSE rep.offsets.length,
                              at |-> "bisect", k |-> 0, num |-> 0,
                              v |-> NoneValue,
                              exc |-> "none", val |-> <<>>],
                             rep.offsets.length)]
    /\ UNCHANGED <<threshold, chain, res>>

\* v = self._cache.get(i); if v is not None: return v
Check(t) ==
    /\ seq.kind = "threads"
    /\ seq.threads[t].pc = "check"
    /\ LET th == seq.threads[t]
           v  == CacheLookup(seq.rep.offsets, th.k)
       IN  seq' = [seq EXCEPT !.threads[t] =
                      IF v # NoneValue THEN Resume(th, v, seq.rep)
                      ELSE [th EXCEPT !.pc = "compute"]]
    /\ UNCHANGED <<threshold, chain, res>>

\* as Compute, and the entry before is put in the shared cache as the
\* place the new entry is built in
ComputeInPlace(t) ==
    /\ seq.kind = "threads"
    /\ seq.threads[t].pc = "compute"
    /\ LET th    == seq.threads[t]
           rep   == seq.rep
           cache == rep.offsets.cache
           inc   == rep.offsets.has_inc /\ (th.k - 1) \in DOMAIN cache
           v     == IF inc
                    THEN entry_from_prev(rep.content_length, th.k, cache[th.k - 1])
                    ELSE arbitrary_entry(rep.content_length, rep.lowest, th.k)
       IN  seq' = [seq EXCEPT !.threads[t] = [th EXCEPT !.pc = "store", !.v = v],
                              !.rep.offsets.cache =
                                  IF inc
                                  THEN [j \in (DOMAIN cache) \cup {th.k} |->
                                           IF j = th.k THEN cache[th.k - 1]
                                                       ELSE cache[j]]
                                  ELSE cache]
    /\ UNCHANGED <<threshold, chain, res>>

\* if self.inc_func and i - 1 in self._cache: v = self.inc_func(...)
\* else: v = self.func(i)
Compute(t) ==
    /\ seq.kind = "threads"
    /\ seq.threads[t].pc = "compute"
    /\ LET th    == seq.threads[t]
           rep   == seq.rep
           cache == rep.offsets.cache
           v     == IF rep.offsets.has_inc /\ (th.k - 1) \in DOMAIN cache
                    THEN entry_from_prev(rep.content_length, th.k, cache[th.k - 1])
                    ELSE arbitrary_entry(rep.content_length, rep.lowest, th.k)
       IN  seq' = [seq EXCEPT !.threads[t] = [th EXCEPT !.pc = "store", !.v = v]]
    /\ UNCHANGED <<threshold, chain, res>>

\* self._cache[i] = v; return v
Store(t) ==
    /\ seq.kind = "threads"
    /\ seq.threads[t].pc = "store"
    /\ LET th    == seq.threads[t]
           cache == seq.rep.offsets.cache
           rep   == [seq.rep EXCEPT !.offsets.cache =
                        [j \in (DOMAIN cache) \cup {th.k} |->
                            IF j = th.k THEN th.v ELSE cache[j]]]
       IN  seq' = [seq EXCEPT !.rep = rep,
                              !.threads[t] = Resume(th, th.v, rep)]
    /\ UNCHANGED <<threshold, chain, res>>

NextThreads ==
    \/ \E t \in Threads, i \in 0..(seq.rep.length - 1) : ThreadLookup(t, i)
    \/ \E t \in Threads : Check(t)
    \/ \E t \in Threads : Compute(t)
    \/ \E t \in Threads : Store(t)

SpecThreads == InitThreads /\ [][NextThreads]_vars

\* ------------------------------------------------------------------------
\* Properties of the enumeration (Spec)
\* ------------------------------------------------------------------------

\* the last call was S[i] or S.get_item(i, d) with 0 <= i < len(S)
InRangeLookup ==
    /\ seq.exc = "none"
    /\ res.op \in {"index", "get_item"}
    /\ 0 <= res.i /\ res.i < seq.length

\* the environment the top-level get_item hands to self.raw for that call
HandedEnv ==
    IF res.din.some THEN res.din
    ELSE IF seq.has_groupref THEN EmptyD
    ELSE NoneD

\* the nodes of a tree
RECURSIVE AllNodes(_)
AllNodes(node) ==
    {node} \cup
    (CASE node.kind \in {"concat", "combin"} ->
              UNION {AllNodes(node.kids[k]) : k \in 1..Len(node.kids)}
       [] node.kind = "repeat" -> AllNodes(node.content)
       [] node.kind \in {"save", "regex"} -> AllNodes(node.raw)
       [] OTHER -> {})

\* the sum of c^k for k = lo..hi, term by term
RECURSIVE SumPow(_, _, _)
SumPow(c, lo, hi) == IF lo > hi THEN 0 ELSE Pow(c, lo) + SumPow(c, lo + 1, hi)

\* the number of strings a tree denotes, computed from its leaves
RECURSIVE DenLen(_)
DenLen(node) ==
    CASE node.kind = "list"   -> Len(node.items)
      [] node.kind = "concat" ->
              SumSeq([k \in 1..Len(node.kids) |-> DenLen(node.kids[k])])
      [] node.kind = "combin" ->
              ProductSeq([k \in 1..Len(node.kids) |-> DenLen(node.kids[k])])
      [] node.kind = "repeat" ->
              SumPow(DenLen(node.content), node.lowest, node.highest)
      [] node.kind = "read"   -> 1
      [] node.kind \in {"save", "regex"} -> DenLen(node.raw)

\* the node a chain of single-child Combinatorics nodes hands every lookup to
RECURSIVE SoleNode(_)
SoleNode(node) ==
    IF node.kind = "combin" /\ Len(node.kids) = 1 THEN SoleNode(node.kids[1])
    ELSE node

\* C1: every string S[i] with 0 <= i < len(S) of a pattern accepted in
\* strict mode is fully matched by the compiled pattern (S[i] in S).
C1_EveryItemMatches ==
    (InRangeLookup /\ res.op = "index" /\ res.exc = "none")
        => RegexContains(seq, res.val)

\* C2: every node of every tree reports the denotational cardinality: a
\* Concatenated node the sum and a Combinatorics node the product of its
\* children's, a Repetitive node the sum of |C|^k for k = lo..hi, a Read
\* node 1.
C2_LengthIsCardinality ==
    seq.exc = "none" => \A n \in AllNodes(seq) : SeqLen(n) = DenLen(n)

\* a tree with a Repetitive node over two elements and three counts next to
\* a two-element sibling, looked up at least once
C2_Witness ==
    /\ InRangeLookup
    /\ seq.raw.kind = "combin" /\ Len(seq.raw.kids) = 2
    /\ seq.raw.kids[1].kind = "repeat"
    /\ seq.raw.kids[1].content_length = 2
    /\ seq.raw.kids[1].highest = seq.raw.kids[1].lowest + 2
    /\ seq.raw.kids[1].length = 7
    /\ seq.length = 14

\* the index into child j that index i of a Combinatorics node selects
CombinDigit(node, j, i) ==
    (i \div ProductSeq(SubSeq(node.lens, 1, j - 1))) % node.lens[j]

\* the children's elements at those indices, joined in declaration order;
\* each child is asked the way the node asks it (get_item with the
\* environment where it has one, c[...] otherwise, c[...] for an only child)
RECURSIVE CombinExpected(_, _, _, _, _)
CombinExpected(node, j, i, d, acc) ==
    IF j > Len(node.kids) THEN [exc |-> "none", val |-> Join(acc)]
    ELSE LET c == node.kids[j]
             r == IF HasGetItem(c) /\ Len(node.kids) > 1
                  THEN GetItem(c, CombinDigit(node, j, i), d)
                  ELSE GetItemDunder(c, CombinDigit(node, j, i))
         IN  IF r.exc # "none" THEN [exc |-> r.exc, val |-> <<>>]
             ELSE CombinExpected(node, j + 1, i,
                                 IF HasGetItem(c) /\ Len(node.kids) > 1 THEN r.d ELSE d,
                                 Append(acc, r.val))

\* C3: get_item(i) of a Combinatorics node is the concatenation, in
\* declaration order, of cj[(i div (|c1|*...*|c(j-1)|)) mod |cj|], the first
\* child being the least-significant digit, and distinct indices select
\* distinct tuples of child indices.
C3_CombinatoricsDigits ==
    InRangeLookup =>
        LET node == seq.raw
            e    == CombinExpected(node, 1, res.i, HandedEnv, <<>>)
            tuple(i) == [j \in 1..Len(node.kids) |-> CombinDigit(node, j, i)]
        IN  /\ res.exc = e.exc
            /\ res.exc = "none" => res.val = e.val
            /\ \A j \in 1..Len(node.kids) :
                   CombinDigit(node, j, res.i) \in 0..(node.lens[j] - 1)
            /\ \A i \in 0..(node.length - 1) :
                   tuple(i) = tuple(res.i) => i = res.i

\* three children of two, three and two elements, at the index whose tuple
\* is (1, 0, 0): the first child moves first
C3_Witness ==
    /\ InRangeLookup
    /\ Len(seq.raw.kids) = 3 /\ seq.raw.lens = <<2, 3, 2>>
    /\ res.i = 1 /\ res.exc = "none" /\ res.val = <<98, 45, 97>>

\* the first index of the strings of k repeats: the sum of |C|^j, j = lo..k-1
RepOffset(node, k) == SumPow(node.content_length, node.lowest, k - 1)

\* the counts k of lo..hi with offset_k <= i < offset_k + |C|^k
RepCounts(node, i) ==
    {k \in node.lowest..node.highest :
        /\ RepOffset(node, k) <= i
        /\ i < RepOffset(node, k) + Pow(node.content_length, k)}

\* C[d(k-1)] ... C[d0], the d's being the base-|C| digits of num
RepExpected(node, k, num) ==
    Join([m \in 1..k |->
            GetItemDunder(node.content,
                          (num \div Pow(node.content_length, k - m))
                              % node.content_length).val])

\* C4: get_item(i) of a Repetitive node(C, lo, hi) is, for the one count k
\* with offset_k <= i < offset_k + |C|^k, the string C[d(k-1)]...C[d0] of
\* the base-|C| digits of i - offset_k padded to k digits, most-significant
\* leftmost; so the strings of count k precede those of count k+1.
C4_RepetitiveDigits ==
    (InRangeLookup /\ SoleNode(seq.raw).kind = "repeat") =>
        LET node == SoleNode(seq.raw)
            ks   == RepCounts(node, res.i)
        IN  /\ Cardinality(ks) = 1
            /\ res.exc = "none"
            /\ \A k \in ks :
                   res.val = RepExpected(node, k, res.i - RepOffset(node, k))

\* [ab]* at index 4: the second string of two repeats, digits (0, 1)
C4_Witness ==
    /\ InRangeLookup
    /\ SoleNode(seq.raw).kind = "repeat"
    /\ SoleNode(seq.raw).content_length = 2
    /\ SoleNode(seq.raw).lowest = 0
    /\ res.i = 4 /\ res.exc = "none" /\ res.val = <<97, 98>>

\* |c1| + ... + |cj|
ConcatCum(node, j) == SumSeq(SubSeq(node.lens, 1, j))

\* the children whose cumulative length is the first to exceed i
ConcatFirst(node, i) ==
    {j \in 1..Len(node.kids) :
        /\ ConcatCum(node, j) > i
        /\ \A l \in 1..(j - 1) : ConcatCum(node, l) <= i}

\* C5: get_item(i) of a Concatenated node is cj[i - (|c1|+...+|c(j-1)|)]
\* for the first j whose cumulative length exceeds i: the children's
\* enumerations appended in declared order, zero-length children skipped.
C5_ConcatenatedOffsets ==
    (InRangeLookup /\ SoleNode(seq.raw).kind = "concat") =>
        LET node == SoleNode(seq.raw)
            js   == ConcatFirst(node, res.i)
        IN  /\ Cardinality(js) = 1
            /\ \A j \in js :
                   LET e == GetItemDunder(node.kids[j], res.i - ConcatCum(node, j - 1))
                   IN  /\ node.lens[j] > 0
                       /\ res.exc = e.exc
                       /\ res.exc = "none" => res.val = e.val

\* an alternation whose first branch is empty, looked up in its third branch
C5_Witness ==
    /\ InRangeLookup
    /\ SoleNode(seq.raw).kind = "concat"
    /\ SoleNode(seq.raw).lens = <<0, 1, 1>>
    /\ res.i = 1 /\ res.exc = "none" /\ res.val = <<98>>

\* longest string over the charset that is looked for in the enumeration
MaxWordLen == 3

\* the characters of the charset
CharsetChars == {seq.charset[k][1] : k \in 1..Len(seq.charset)}

\* is w in the language of the pattern restricted to the charset and max_count
InLanguage(w) ==
    LET ends == MatchItems(seq.pattern, 1, w, MatchStart,
                           [count |-> Some(seq.max_count),
                            chars |-> Some(CharsetChars)])
    IN  \E j \in 1..Len(ends) : ends[j].pos = Len(w) + 1

\* the indices at which the string w occurs
Occurrences(w) ==
    {i \in 0..(seq.length - 1) :
        LET r == GetItemDunder(seq, i) IN r.exc = "none" /\ r.val = w}

\* C6: the strings S[i], 0 <= i < len(S), are the language of the pattern
\* restricted to the charset and max_count, each at exactly one index: no
\* string occurs twice, no other string occurs, none is missing.
C6_ExactlyTheLanguage ==
    /\ (InRangeLookup /\ res.op = "index" /\ res.exc = "none") =>
           /\ InLanguage(res.val)
           /\ Occurrences(res.val) = {res.i}
    /\ seq.exc = "none" =>
           \A n \in 0..MaxWordLen : \A w \in [1..n -> CharsetChars] :
               InLanguage(w) => Occurrences(w) # {}

\* ------------------------------------------------------------------------
\* Properties of capture groups and backreferences (Spec)
\* ------------------------------------------------------------------------

\* What the element i of a node is when every node hands the environment it
\* received to the children it asks, in the order of the string: val is the
\* string, env the groups closed so far, bound whether every backreference
\* read so far found its group in env.
RECURSIVE Den(_, _, _)
RECURSIVE DenCombin(_, _, _, _)
RECURSIVE DenRepeat(_, _, _, _, _)
Den(node, i, e) ==
    CASE node.kind = "list" -> [e EXCEPT !.val = node.items[i + 1]]
      [] node.kind = "concat" ->
             LET j == CHOOSE k \in ConcatFirst(node, i) : TRUE
             IN  Den(node.kids[j], i - ConcatCum(node, j - 1), e)
      [] node.kind = "combin" -> DenCombin(node, 1, i, [e EXCEPT !.val = <<>>])
      [] node.kind = "repeat" ->
             LET k == CHOOSE c \in RepCounts(node, i) : TRUE
             IN  DenRepeat(node, k, 1, i - RepOffset(node, k), [e EXCEPT !.val = <<>>])
      [] node.kind = "save" ->
             LET r == Den(node.raw, i, e)
             IN  [r EXCEPT !.env = DictSet(r.env, node.key, r.val)]
      [] node.kind = "read" ->
             [e EXCEPT !.val = DictGet(e.env, node.num),
                       !.bound = e.bound /\ node.num \in DOMAIN e.env.map]
      [] node.kind = "regex" -> Den(node.raw, i, e)

\* the children j.. of a Combinatorics node, appended to e.val
DenCombin(node, j, i, e) ==
    IF j > Len(node.kids) THEN e
    ELSE LET r == Den(node.kids[j], CombinDigit(node, j, i), e)
         IN  DenCombin(node, j + 1, i, [r EXCEPT !.val = e.val \o r.val])

\* the repetitions m..k of a Repetitive node, appended to e.val
DenRepeat(node, k, m, num, e) ==
    IF m > k THEN e
    ELSE LET r == Den(node.content,
                      (num \div Pow(node.content_length, k - m)) % node.content_length,
                      e)
         IN  DenRepeat(node, k, m + 1, num, [r EXCEPT !.val = e.val \o r.val])

\* the element res.i of the sequence under that reading, from no bindings
DenTop == Den(seq.raw, res.i, [val |-> <<>>, env |-> EmptyD, bound |-> TRUE])

\* the backreference nodes of the sequence
ReadNodes == {n \in AllNodes(seq.raw) : n.kind = "read"}

\* C11: where every backreference is to a group that closed before it, S[i]
\* carries at the backreference exactly what the group produced in the same
\* lookup, wherever the group is nested, and a backreference has one element.
C11_BackrefRepeatsGroup ==
    (InRangeLookup /\ res.op = "index" /\ ReadNodes # {} /\ DenTop.bound) =>
        /\ res.exc = "none"
        /\ res.val = DenTop.val
        /\ \A n \in ReadNodes : n.length = 1

\* the element res.i under that reading, from the environment of the call
DenCall == Den(seq.raw, res.i, [val |-> <<>>, env |-> res.din, bound |-> TRUE])

\* C12: after get_item(i, d) with an environment d, d[g] is what group g
\* contributed to the returned string, for every group g on the path that i
\* selects, at any nesting depth.
C12_EnvironmentReachesEveryGroup ==
    (/\ InRangeLookup /\ res.op = "get_item" /\ res.din.some
     /\ res.exc = "none" /\ res.val = DenCall.val) =>
        \A g \in DOMAIN DenCall.env.map :
            /\ g \in DOMAIN res.d.map
            /\ res.d.map[g] = DenCall.env.map[g]

\* C13: an in-range lookup on a sequence with a backreference node never
\* raises, wherever the backreference sits: the node gives the string bound
\* to its group in the environment of the lookup, or "fail".
C13_BackrefNeverRaises ==
    (InRangeLookup /\ ReadNodes # {}) => res.exc = "none"

\* the ids of the capture groups of the sequence
GroupIds == {n.key : n \in {x \in AllNodes(seq.raw) : x.kind = "save"}}

\* M[i] was asked with i in range, and all the groups take part at i
MatchOfAllGroups ==
    /\ seq.exc = "none" /\ seq.matches
    /\ res.op = "match"
    /\ 0 <= res.i /\ res.i < seq.length
    /\ GroupIds # {}
    /\ DenTop.bound
    /\ DOMAIN DenTop.env.map = GroupIds

\* C14: for m = AllMatches(P)[i] where all k groups of P take part at i,
\* m.group(0) is AllStrings(P)[i], m.group(n) by id or by name is what group
\* n contributed, and m.groups() is (m.group(1), ..., m.group(k)), also when
\* the whole pattern is one group.
C14_MatchExposesGroups ==
    MatchOfAllGroups =>
        LET k == Cardinality(GroupIds)
            s == GetItemDunder([seq EXCEPT !.matches = FALSE], res.i)
            names == named_group_lookup(seq.pattern)
        IN  /\ res.exc = "none"
            /\ s.exc = "none"
            /\ res.group[0] = [exc |-> "none", val |-> s.val]
            /\ \A n \in 1..k :
                   res.group[n] = [exc |-> "none", val |-> DenTop.env.map[n]]
            /\ \A name \in DOMAIN names : res.byname = res.group[names[name]]
            /\ res.groups = [exc |-> "none", val |-> [n \in 1..k |-> res.group[n].val]]

\* ------------------------------------------------------------------------
\* Properties of anchors (Spec)
\* ------------------------------------------------------------------------

\* the matchers of a parsed pattern in the order sub_values adapts them: a
\* matcher, then what its backend adapts
RECURSIVE Adapted(_)
RECURSIVE AdaptedEach(_)
Adapted(t) ==
    <<t>> \o
    (CASE t.op \in {"SUBPATTERN", "MIN_REPEAT", "MAX_REPEAT"} -> AdaptedEach(t.body)
       [] t.op = "BRANCH" ->
              AdaptedEach(Join(t.alts))
       [] t.op = "IN" ->
              AdaptedEach(IF t.items # <<>> /\ t.items[1].op = "NEGATE"
                          THEN Tail(t.items) ELSE t.items)
       [] t.op = "NOT_LITERAL" -> <<Literal(t.c)>>
       [] OTHER -> <<>>)

AdaptedEach(items) ==
    IF items = <<>> THEN <<>>
    ELSE Adapted(Head(items)) \o AdaptedEach(Tail(items))

\* the matchers of the pattern of the sequence
Matchers == AdaptedEach(seq.pattern)

IsAnchor(t) == t.op = "AT"

\* $, \Z or \b
IsEndAnchor(t) == IsAnchor(t) /\ t.where \in {"AT_END", "AT_END_STRING", "AT_BOUNDARY"}

\* neither an anchor nor a subpattern wrapper
IsContent(t) == t.op \notin {"AT", "SUBPATTERN"}

\* a non-anchor matcher has been seen before the k-th matcher
SeenContent(k) == \E j \in 1..(k - 1) : IsContent(Matchers[j])

\* an end anchor, or a \b after content, has been seen before the k-th
SeenEnd(k) ==
    \E j \in 1..(k - 1) :
        /\ IsAnchor(Matchers[j])
        /\ \/ Matchers[j].where \in {"AT_END", "AT_END_STRING"}
           \/ Matchers[j].where = "AT_BOUNDARY" /\ SeenContent(j)

\* the k-th matcher is misplaced: \B at START, an anchor other than $, \Z,
\* \b at MIDDLE, anything but $, \Z, \b or a subpattern wrapper at END
MisplacedAt(k) ==
    LET t == Matchers[k]
    IN  IF SeenEnd(k) THEN (IsAnchor(t) /\ ~IsEndAnchor(t)) \/ IsContent(t)
        ELSE IF SeenContent(k) THEN IsAnchor(t) /\ ~IsEndAnchor(t)
        ELSE IsAnchor(t) /\ t.where = "AT_NON_BOUNDARY"

\* C15: in strict mode construction raises ParseError whenever a matcher is
\* misplaced for the START/MIDDLE/END machine run over the matchers in the
\* order they are adapted.
C15_MisplacedAnchorRejected ==
    (~seq.relaxed /\ \E k \in 1..Len(Matchers) : MisplacedAt(k)) =>
        seq.exc = "ParseError"

\* a^b was constructed in strict mode and rejected
C15_Witness ==
    /\ ~seq.relaxed
    /\ seq.pattern = <<Literal(97), At("AT_BEGINNING"), Literal(98)>>
    /\ MisplacedAt(2)
    /\ seq.exc = "ParseError"

\* ^, \A or \b
IsBeginAnchor(t) ==
    IsAnchor(t) /\ t.where \in {"AT_BEGINNING", "AT_BEGINNING_STRING", "AT_BOUNDARY"}

\* no anchor among the matchers of the items
AnchorFree(items) ==
    LET ms == AdaptedEach(items) IN \A k \in 1..Len(ms) : ~IsAnchor(ms[k])

\* the items after their leading anchors
RECURSIVE DropLeading(_)
DropLeading(items) ==
    IF items # <<>> /\ IsBeginAnchor(Head(items)) THEN DropLeading(Tail(items))
    ELSE items

\* the items before their trailing anchors
RECURSIVE DropTrailing(_)
DropTrailing(items) ==
    IF items # <<>> /\ IsEndAnchor(items[Len(items)])
    THEN DropTrailing(SubSeq(items, 1, Len(items) - 1))
    ELSE items

\* leading anchors, then a body without anchors or a group around such items
RECURSIVE LeadingShape(_)
LeadingShape(items) ==
    LET rest == DropLeading(items)
    IN  \/ AnchorFree(rest)
        \/ /\ Len(rest) = 1
           /\ rest[1].op = "SUBPATTERN"
           /\ LeadingShape(rest[1].body)

\* (^ | \A | \b)* body ($ | \Z | \b)*
AnchoredShape(items) == LeadingShape(DropTrailing(items))

\* the items with every anchor taken out
RECURSIVE StripAnchors(_)
StripAnchors(items) ==
    IF items = <<>> THEN <<>>
    ELSE LET t == Head(items)
         IN  IF IsAnchor(t) THEN StripAnchors(Tail(items))
             ELSE IF t.op = "SUBPATTERN"
             THEN <<[t EXCEPT !.body = StripAnchors(t.body)]>> \o StripAnchors(Tail(items))
             ELSE <<t>> \o StripAnchors(Tail(items))

\* the sequence of the body alone
BodyAlone ==
    AllStrings(StripAnchors(seq.pattern), {}, Charset, Some(seq.max_count), FALSE,
               threshold)

\* a strict sequence of strings whose pattern has that shape with at least
\* one anchor, and whose body alone is accepted
AnchoredBody ==
    /\ ~seq.relaxed /\ ~seq.matches
    /\ AnchoredShape(seq.pattern)
    /\ ~AnchorFree(seq.pattern)
    /\ BodyAlone.exc = "none"

\* C16: a pattern (^ | \A | \b)* body ($ | \Z | \b)* with an anchor-free
\* body is accepted in strict mode and enumerates the same sequence as the
\* body alone: the same length and, index by index, the same outcome.
C16_AnchorsAddNothing ==
    AnchoredBody =>
        /\ seq.exc = "none"
        /\ seq.length = BodyAlone.length
        /\ (InRangeLookup /\ res.op = "index") =>
               LET b == GetItemDunder(BodyAlone, res.i)
               IN  res.exc = b.exc /\ res.val = b.val

\* ------------------------------------------------------------------------
\* Properties of indexing and slicing (SpecSlice)
\* ------------------------------------------------------------------------

\* the position in the top-level sequence of position p of the k-th view
RECURSIVE ViewPos(_, _)
ViewPos(k, p) ==
    IF k = 0 THEN p ELSE ViewPos(k - 1, chain[k].start + p * chain[k].step)

\* C7: V[i] of the top-level sequence or of a view of 16 or more elements
\* (a slice of a slice included) raises IndexError when i < -len(V) or
\* i >= len(V), and returns the element at position i (i + len(V) when i
\* is negative) otherwise.
C7_IndexInRangeOrIndexError ==
    res.op = "view_index" =>
        IF res.i < -res.size \/ res.i >= res.size
        THEN res.exc = "IndexError"
        ELSE LET p == IF res.i < 0 THEN res.i + res.size ELSE res.i
                 q == ViewPos(res.level, p)
             IN  /\ res.exc = "none"
                 /\ q \in 0..(seq.length - 1)
                 /\ res.val = GetItemDunder(seq, q).val

\* slice(start, stop, step).indices(size) of Python, step # 0
PyBound(b, size, step, absent) ==
    LET lower == IF step > 0 THEN 0 ELSE -1
        upper == IF step > 0 THEN size ELSE size - 1
        a     == IF b.v < 0 THEN b.v + size ELSE b.v
    IN  IF ~b.some THEN absent
        ELSE IF a < lower THEN lower
        ELSE IF a > upper THEN upper
        ELSE a

PyIndices(slicer, size) ==
    LET step == IF slicer.step.some THEN slicer.step.v ELSE 1
    IN  [start |-> PyBound(slicer.start, size, step,
                           IF step > 0 THEN 0 ELSE size - 1),
         stop  |-> PyBound(slicer.stop, size, step,
                           IF step > 0 THEN size ELSE -1),
         step  |-> step]

\* the number of positions start, start + step, ... before stop
PyLen(ind) ==
    IF ind.step > 0
    THEN (IF ind.start < ind.stop
          THEN (ind.stop - ind.start - 1) \div ind.step + 1 ELSE 0)
    ELSE (IF ind.stop < ind.start
          THEN (ind.start - ind.stop - 1) \div (-ind.step) + 1 ELSE 0)

\* items[start:stop:step] of a Python list
PyTake(items, ind) ==
    [m \in 1..PyLen(ind) |-> items[ind.start + (m - 1) * ind.step + 1]]

\* list(S) of the top-level sequence
TopItems == [m \in 1..seq.length |-> GetItemDunder(seq, m - 1).val]

\* the step of the slice that was taken (1 when absent)
StepTaken == IF res.slicer.step.some THEN res.slicer.step.v ELSE 1

\* list(result) of the slice that was taken: the unpacked list, or the
\* elements of the view it returned
ResultList ==
    IF res.unpacked THEN [exc |-> "none", val |-> res.items]
    ELSE IF res.exc # "none" THEN [exc |-> res.exc, val |-> <<>>]
    ELSE LET u == Unpack(seq, chain, 0, <<>>) IN [exc |-> u.exc, val |-> u.val]

\* C8: for every size and every slice with step # 0 of the sequence S,
\* slice_indices agrees with Python's slice.indices and list(S[slice])
\* equals list(S)[slice]; S[::-1] and S[99::-1] give the reverse of S.
C8_SlicingMatchesPython ==
    (res.op = "slice" /\ res.level = 0 /\ StepTaken # 0) =>
        LET py == PyIndices(res.slicer, res.size)
        IN  /\ res.view.exc = "none"
            /\ res.view.start = py.start
            /\ res.view.stop = py.stop
            /\ res.view.step = py.step
            /\ ResultList.exc = "none"
            /\ ResultList.val = PyTake(TopItems, py)

\* a bound with size added when negative, then held within 0..size
Clamped(b, size) ==
    LET a == IF b < 0 THEN b + size ELSE b
    IN  IF a < 0 THEN 0 ELSE IF a > size THEN size ELSE a

\* C9: slice bounds are clamped and never rejected: taking a slice with
\* step # 0 never raises, whatever the bounds, each present bound is held
\* within 0..size, and a slice that selects no position gives the empty list.
C9_BoundsClampedNeverRejected ==
    (res.op = "slice" /\ StepTaken # 0) =>
        /\ res.view.exc = "none"
        /\ res.exc = "none"
        /\ res.slicer.start.some =>
               res.view.start = Clamped(res.slicer.start.v, res.size)
        /\ res.slicer.stop.some =>
               res.view.stop = Clamped(res.slicer.stop.v, res.size)
        /\ PyLen(PyIndices(res.slicer, res.size)) = 0 =>
               (res.unpacked /\ res.items = <<>>)

\* C10: taking a slice with step 0 fails with ValueError ("slice step cannot
\* be zero") and with no other error.
C10_StepZeroIsValueError ==
    (res.op = "slice" /\ StepTaken = 0) => res.exc = "ValueError"

\* ------------------------------------------------------------------------
\* Properties of the digit streams (SpecDigits)
\* ------------------------------------------------------------------------

\* d0 + d1 * by + d2 * by^2 + ...
RECURSIVE DigitSum(_, _)
DigitSum(digits, by) ==
    IF digits = <<>> THEN 0 ELSE Head(digits) + by * DigitSum(Tail(digits), by)

\* every digit is in [0, by)
DigitsInBase(digits, by) == \A k \in 1..Len(digits) : digits[k] \in 0..(by - 1)

\* the digit at position j (from 0) of a number held as limbs:
\* (x // by^j) % by, the digits lying within the limbs
LimbDigit(x, by, j) ==
    LET bit == j * (bit_length(by) - 1)
    IN  IF bit \div LimbBits >= Len(x) THEN 0
        ELSE (x[bit \div LimbBits + 1] \div Pow(2, bit % LimbBits)) % by

\* the number of digits of such a number
LimbDigits(x, by) ==
    (BigBitLength(x) + bit_length(by) - 2) \div (bit_length(by) - 1)

\* C17: for x >= 1 and by >= 2 divmod_iter(x, by) yields digits in [0, by),
\* least significant first, with sum of dj * by^j = x and a last digit that
\* is not 0, under either strategy. For a number held as limbs: the j-th
\* digit yielded is (x // by^j) % by, and the generator ends after the
\* highest digit of x that is not 0.
C17_DigitsReconstruct ==
    /\ (/\ seq.kind = "ints" /\ res.op = "divmod_iter"
        /\ seq.x >= 1 /\ seq.by >= 2 /\ ~seq.chunk.some) =>
           /\ res.out.exc = "none"
           /\ res.out.digits # <<>>
           /\ DigitsInBase(res.out.digits, seq.by)
           /\ DigitSum(res.out.digits, seq.by) = seq.x
           /\ res.out.digits[Len(res.out.digits)] # 0
    /\ (seq.kind = "limbs" /\ res.op = "generator") =>
           /\ res.count > 0 => res.m = LimbDigit(seq.x, seq.by, res.count - 1)
           /\ res.count <= LimbDigits(seq.x, seq.by)
           /\ res.done => /\ res.count = LimbDigits(seq.x, seq.by)
                          /\ res.m # 0

\* the chunked generator has ended on a number whose last chunk is not full
C17_Witness ==
    /\ seq.kind = "limbs" /\ res.op = "generator"
    /\ res.strategy = "chunking"
    /\ res.done
    /\ res.count = LimbDigits(seq.x, seq.by)
    /\ res.count % DefaultDigitsPerChunk # 0

\* chunk is by^k for some k >= 1
IsPowerOf(chunk, by) == \E k \in 1..bit_length(chunk) : Pow(by, k) = chunk

\* C18: for x >= 0, by >= 2 and chunk = by^k with k >= 1, also above x,
\* divmod_iter_chunking(x, by, chunk) yields the digit sequence of
\* divmod_iter_basic(x, by): the same digits at the same positions, and as
\* many.
C18_ChunkingAgreesWithBasic ==
    (/\ seq.kind = "ints" /\ res.op = "divmod_iter_chunking"
     /\ seq.by >= 2 /\ seq.chunk.some /\ IsPowerOf(seq.chunk.v, seq.by)) =>
        /\ res.out.exc = "none"
        /\ res.out = divmod_iter_basic(seq.x, seq.by, seq.chunk)

\* the chunked stream of 5 in base 2 with chunk 16
C18_Witness ==
    /\ seq.kind = "ints" /\ res.op = "divmod_iter_chunking"
    /\ seq.x = 5 /\ seq.by = 2 /\ seq.chunk = Some(16)
    /\ res.out = [exc |-> "none", digits |-> <<1, 0, 1>>]

\* C19: divmod_iter(0, by) yields nothing for by >= 2, and a single 0 for
\* by = 1.
C19_ZeroYieldsNothing ==
    (/\ seq.kind = "ints" /\ res.op = "divmod_iter"
     /\ seq.x = 0 /\ seq.by >= 1 /\ ~seq.chunk.some) =>
        res.out = [exc |-> "none",
                   digits |-> IF seq.by = 1 THEN <<0>> ELSE <<>>]

\* C20: consuming divmod_iter(x, 1) fails with ValueError for x >= 1 (it
\* does not yield forever), and divmod_iter(0, 1) yields exactly 0.
C20_BaseOneFails ==
    (/\ seq.kind = "ints" /\ res.op = "divmod_iter"
     /\ seq.by = 1 /\ ~seq.chunk.some) =>
        res.out = IF seq.x >= 1 THEN [exc |-> "ValueError", digits |-> <<>>]
                  ELSE [exc |-> "none", digits |-> <<0>>]

\* C21: with a chunk that is not by^k for any k >= 1, asking divmod_iter(x,
\* by, chunk) for its digits fails with ValueError, for every x and by >= 2:
\* the chunk is never ignored.
C21_BadChunkIsValueError ==
    (/\ seq.kind = "ints" /\ res.op = "divmod_iter"
     /\ seq.by >= 2 /\ seq.chunk.some /\ ~IsPowerOf(seq.chunk.v, seq.by)) =>
        res.out.exc = "ValueError"

\* C22: powersum(b, lo, hi) is the sum of b^k for k = lo..hi, for every
\* b >= 0 (0 and 1 included) and 0 <= lo <= hi + 1; it is 0 for the empty
\* range hi = lo - 1.
C22_PowersumIsTheSum ==
    (seq.kind = "powersum" /\ res.op = "powersum") =>
        /\ res.out = SumPow(seq.x, seq.low, seq.high)
        /\ seq.high = seq.low - 1 => res.out = 0

\* powersum(0, 0, 2) = 0^0 + 0^1 + 0^2 = 1 has been computed
C22_Witness ==
    /\ seq.kind = "powersum" /\ res.op = "powersum"
    /\ seq.x = 0 /\ seq.low = 0 /\ seq.high = 2
    /\ res.out = 1

\* ------------------------------------------------------------------------
\* Properties of the cache (SpecCache)
\* ------------------------------------------------------------------------

\* C23: over any sequence of reads, func or inc_func is invoked at most once
\* for a position, whatever they return and also after func is reassigned;
\* a read never overwrites or removes an entry of the cache, and a read out
\* of range raises IndexError and leaves the cache as it was.
C23_ComputedAtMostOnce ==
    /\ \A i \in 0..(seq.cs.length - 1) :
           Cardinality({k \in 1..Len(chain) : chain[k] = i}) <= 1
    /\ res.op = "read" =>
           /\ \A k \in DOMAIN res.before :
                  k \in DOMAIN seq.cs.cache /\ seq.cs.cache[k] = res.before[k]
           /\ (res.i < -seq.cs.length \/ res.i >= seq.cs.length) =>
                  res.exc = "IndexError" /\ seq.cs.cache = res.before

\* ------------------------------------------------------------------------
\* Properties of lookups from several threads (SpecThreads)
\* ------------------------------------------------------------------------

\* the shared node as its construction left it
FreshNode ==
    RepetitiveSequence(seq.rep.content, seq.rep.lowest, seq.rep.highest, threshold)

\* what thread t's finished lookup returns when it runs alone
AloneResult(t) == RepGetItem(FreshNode, seq.threads[t].i, EmptyD)

\* C24: under every interleaving of the check, compute and store steps of
\* the offset cache, a finished lookup of a thread has returned what the
\* same lookup returns on a sequence no other thread uses, and every entry
\* k of the offset cache is the pair (offset_k, count_k)
C24_ThreadsAgree ==
    seq.kind = "threads" =>
       /\ \A t \in Threads :
             seq.threads[t].pc = "done" =>
                /\ seq.threads[t].exc = AloneResult(t).exc
                /\ seq.threads[t].val = AloneResult(t).val
       /\ \A k \in DOMAIN seq.rep.offsets.cache :
             seq.rep.offsets.cache[k] =
                arbitrary_entry(seq.rep.content_length, seq.rep.lowest, k)

\* one thread is about to store an entry another thread stored after the
\* first one's check, and a lookup of the other thread has finished
C24_Witness ==
    /\ seq.kind = "threads"
    /\ \E t \in Threads, u \in Threads :
          /\ t # u
          /\ seq.threads[t].pc = "store"
          /\ seq.threads[t].k \in DOMAIN seq.rep.offsets.cache
          /\ seq.threads[u].pc = "done"
          /\ seq.threads[u].val # <<>>

\* the entries a bisect over the whole offset table chooses for index i: the
\* largest k with offset_k <= i
PlainBisect(rep, i) ==
    LET offset(k) == arbitrary_entry(rep.content_length, rep.lowest, k)[1]
    IN  {k \in 0..(rep.offsets.length - 1) :
            /\ offset(k) <= i
            /\ \A j \in (k + 1)..(rep.offsets.length - 1) : offset(j) > i}

\* the count whose first string is at offset_break, when the break is at an
\* entry of the table
BreakCount == seq.rep.lowest + seq.rep.index_of_offset

\* C25: for every value of OFFSET_BREAK_THRESHOLD and every index i in
\* range, the entry whose offset and count get_item reads after the
\* two-region bisect and the decrement is the entry with the largest k with
\* offset_k <= i; and where the break is at an entry inside the table, the
\* index offset_break - 1 gives the last string of the count before,
\* offset_break the first string of the count at the break, and
\* offset_break + 1 its second string (when it has two).
C25_TwoRegionIsPlainBisect ==
    seq.kind = "threads" =>
       \A t \in Threads :
          LET th  == seq.threads[t]
              rep == seq.rep
              c   == rep.content_length
          IN  /\ (th.pc \in {"check", "compute", "store"}
                  /\ th.at \in {"entry", "count"})
                    => PlainBisect(rep, th.i) = {th.k}
              /\ (th.pc = "done" /\ rep.index_of_offset < rep.offsets.length)
                    => /\ th.exc = "none"
                       /\ (rep.index_of_offset >= 1 /\ th.i = rep.offset_break - 1)
                             => th.val = RepExpected(rep, BreakCount - 1,
                                                     Pow(c, BreakCount - 1) - 1)
                       /\ th.i = rep.offset_break
                             => th.val = RepExpected(rep, BreakCount, 0)
                       /\ (Pow(c, BreakCount) >= 2 /\ th.i = rep.offset_break + 1)
                             => th.val = RepExpected(rep, BreakCount, 1)

\* with the threshold at 3, [ab]{1,3} breaks at "aa" (index 2): a lookup of
\* index 3, one above the break, has returned "ab"
C25_Witness ==
    /\ seq.kind = "threads"
    /\ threshold = 3
    /\ seq.rep.content_length = 2 /\ seq.rep.lowest = 1 /\ seq.rep.highest = 3
    /\ seq.rep.index_of_offset = 1
    /\ \E t \in Threads :
          /\ seq.threads[t].pc = "done"
          /\ seq.threads[t].i = seq.rep.offset_break + 1
          /\ seq.threads[t].val = <<97, 98>>

\* ------------------------------------------------------------------------
\* Properties of the length of a view (SpecSlice)
\* ------------------------------------------------------------------------

\* the n for which start + n * step lies strictly before stop in the
\* direction of step; none is above size, the bounds being within 0..size
PositionsBefore(view, size) ==
    {n \in 0..size :
        IF view.step > 0 THEN view.start + n * view.step < view.stop
                         ELSE view.start + n * view.step > view.stop}

\* C26: the length of the SlicedSequence built for a slice with step != 0 is
\* the number of positions start, start + step, start + 2 * step, ... that
\* lie strictly before stop in the direction of step; it is 0, never
\* negative, when there is none.
C26_LengthCountsPositions ==
    (res.op = "slice" /\ res.view.exc = "none") =>
        /\ res.view.length >= 0
        /\ res.view.length = Cardinality(PositionsBefore(res.view, res.size))

\* ------------------------------------------------------------------------
\* Properties of the offset table (Spec)
\* ------------------------------------------------------------------------

\* the Repetitive nodes of the constructed sequence
RepeatNodes ==
    IF seq.exc = "none" THEN {n \in AllNodes(seq.raw) : n.kind = "repeat"} ELSE {}

\* self.offsets[j] read now, with the cache as the lookups so far left it
OffsetRead(node, j) == OffsetsGetItem(node, j).v

\* entry j of every table is (offset_k, k) for the count k = lo + j
EntriesAreOffsets ==
    \A node \in RepeatNodes :
       \A j \in 0..(node.offsets.length - 1) :
          OffsetRead(node, j) = <<RepOffset(node, node.lowest + j), node.lowest + j>>

\* C27 as stated: for any |C| >= 0 and 0 <= lo <= hi the offset table is
\* strictly increasing, offset_k < offset_(k+1) for every consecutive pair,
\* entry k being (sum of |C|^j for j = lo..k-1, k).
C27_OffsetsStrictlyIncrease ==
    /\ EntriesAreOffsets
    /\ \A node \in RepeatNodes :
          \A j \in 0..(node.offsets.length - 2) :
             OffsetRead(node, j)[1] < OffsetRead(node, j + 1)[1]

\* C27 as amended: the offsets never decrease, and strictly increase when
\* |C| >= 1; entry k is (sum of |C|^j for j = lo..k-1, k).
C27_OffsetsIncrease ==
    /\ EntriesAreOffsets
    /\ \A node \in RepeatNodes :
          \A j \in 0..(node.offsets.length - 2) :
             /\ OffsetRead(node, j)[1] <= OffsetRead(node, j + 1)[1]
             /\ node.content_length >= 1
                   => OffsetRead(node, j)[1] < OffsetRead(node, j + 1)[1]

\* a table of three entries over two characters, of which a lookup has
\* filled a second entry
C27_Witness ==
    /\ InRangeLookup
    /\ \E node \in RepeatNodes :
          /\ node.content_length = 2
          /\ node.lowest = 0
          /\ node.offsets.length = 3
          /\ Cardinality(DOMAIN node.offsets.cache) >= 2

\* ------------------------------------------------------------------------
\* Properties of relaxed mode (SpecRelaxed)
\* ------------------------------------------------------------------------

\* no lookaround among the matchers of the pattern
LookaroundFree ==
    \A k \in 1..Len(Matchers) : Matchers[k].op \notin {"ASSERT", "ASSERT_NOT"}

\* the sequence of the same arguments in the other mode
OtherMode ==
    RegexMembershipSequence(seq.pattern, {}, seq.charset, Some(seq.max_count),
                            ~seq.relaxed, threshold, seq.matches)

\* C28: a pattern without lookarounds is accepted or rejected alike with
\* relaxed=True and relaxed=False and enumerates alike, so a pattern with a
\* misplaced anchor (a^b) raises ParseError at construction in both modes.
C28_RelaxedOnlyForLookarounds ==
    LookaroundFree =>
        /\ seq.exc = OtherMode.exc
        /\ seq.exc = "none" => seq.length = OtherMode.length
        /\ (InRangeLookup /\ res.op = "index" /\ OtherMode.exc = "none")
              => LET other == GetItemDunder(OtherMode, res.i)
                 IN  res.exc = other.exc /\ res.val = other.val

\* ------------------------------------------------------------------------
\* Properties of the incremental builder (SpecThreads)
\* ------------------------------------------------------------------------

\* C29: for every index i >= 1 whose entry i - 1 is cached, the incremental
\* builder applied to that entry gives the pair arbitrary_entry(i) gives; so
\* whatever the lookups so far, every cached entry i is
\* (powersum(|C|, lo, i + lo - 1), i + lo), and a finished lookup has
\* returned what it returns as the first lookup of the sequence.
C29_TableIndependentOfOrder ==
    seq.kind = "threads" =>
       LET rep   == seq.rep
           cache == rep.offsets.cache
       IN  /\ \A i \in 1..(rep.offsets.length - 1) :
                 (i - 1) \in DOMAIN cache =>
                    entry_from_prev(rep.content_length, i, cache[i - 1])
                       = arbitrary_entry(rep.content_length, rep.lowest, i)
           /\ \A i \in DOMAIN cache :
                 cache[i] = <<powersum(rep.content_length, rep.lowest,
                                       i + rep.lowest - 1),
                              i + rep.lowest>>
           /\ \A t \in Threads :
                 (seq.threads[t].pc = "done" /\ seq.threads[t].n = MaxLookups)
                    => seq.threads[t].val = AloneResult(t).val

\* one thread, the other not having started, is in its second lookup and
\* about to store an entry it has built from the cached entry before it
C29_Witness ==
    /\ seq.kind = "threads"
    /\ \E t \in Threads :
          /\ \A u \in Threads \ {t} : seq.threads[u] = Idle
          /\ seq.threads[t].pc = "store"
          /\ seq.threads[t].n = 2
          /\ seq.threads[t].k >= 1
          /\ (seq.threads[t].k - 1) \in DOMAIN seq.rep.offsets.cache
          /\ seq.threads[t].v[1] >= 3

\* ------------------------------------------------------------------------
\* Properties of the padding of a repetition (Spec)
\* ------------------------------------------------------------------------

\* the strings of the content of a Repetitive node
ContentStrings(node) ==
    {GetItemDunder(node.content, j).val : j \in 0..(node.content_length - 1)}

\* C30: in RepetitiveSequence.get_item, for every index in range whose
\* count is at least 1, the digit stream of i - offset yields at least one
\* and at most count digits, so leftover = count - (digits produced) is
\* never negative and the assertion on it never fails, and the string
\* returned is made of exactly count strings of the content.
C30_LeftoverNeverNegative ==
    (InRangeLookup /\ SoleNode(seq.raw).kind = "repeat") =>
        LET node == SoleNode(seq.raw)
        IN  \A k \in RepCounts(node, res.i) :
               k >= 1 =>
                  LET stream == divmod_iter(res.i - RepOffset(node, k),
                                            node.content_length, None)
                  IN  /\ stream.exc = "none"
                      /\ 1 <= Len(stream.digits)
                      /\ k - Len(stream.digits) >= 0
                      /\ res.exc = "none"
                      /\ res.val \in {Join(w) : w \in [1..k -> ContentStrings(node)]}

\* [ab]* at index 3: one digit for the count 2, padded to "aa"
C30_Witness ==
    /\ InRangeLookup
    /\ SoleNode(seq.raw).kind = "repeat"
    /\ SoleNode(seq.raw).content_length = 2
    /\ SoleNode(seq.raw).lowest = 0
    /\ res.i = 3 /\ res.exc = "none" /\ res.val = <<97, 97>>
====
